---- MODULE Spec2Model ----
(***************************************************************************)
(* Turn-based chat combat game: the combat session state machine           *)
(* (handlers/combat.py), the menu handlers that touch the player           *)
(* (handlers/main_menu.py), the player store and progression rules         *)
(* (utils/player_utils.py), the drop resolver (utils/drop_system.py) and   *)
(* the dispatch of gateway events (bot.py).                                *)
(*                                                                         *)
(* Probabilities and float factors are integers in percent: 0.9 is 90.     *)
(* A draw `random.random() < p` is a nondeterministic Boolean that can be  *)
(* TRUE only if p > 0 and FALSE only if p < 1.                             *)
(*                                                                         *)
(* Every webhook request is its own asyncio task (bot.py:24-28); a handler *)
(* runs without interruption between two awaits that really suspend        *)
(* (network calls and asyncio.sleep; MemoryStorage calls do not suspend).  *)
(* One action of the model is one such uninterrupted stretch.              *)
(***************************************************************************)
EXTENDS Integers, Sequences, FiniteSets, TLC

\* ---------------------------------------------------------------- bounds
MaxRequests == 4        \* gateway events delivered in one behaviour
MaxTasks    == 2        \* handler tasks suspended at an await at one time
MaxPlayTime == 1        \* cap of the play_time counter (seconds)

Users == {1}
\* Two players' ids, for the actions of two players interleaved.
Pair == {1, 2}
Tasks == 1..MaxTasks

\* ------------------------------------------------------ program constants
DEFEAT_HEALTH_RESTORE   == 50    \* 0.5
DEFEAT_MONEY_LOSS       == 10    \* 0.1
CRITICAL_HIT_CHANCE     == 15    \* 0.15
CRITICAL_HIT_MULTIPLIER == 150   \* 1.5
FLEE_CHANCE             == 70    \* 0.7
FLEE_TAX_DIVISOR        == 20
DAILY_BONUS_AMOUNT      == 100
HEAL_COST_PER_HP        == 5
REST_HEAL_AMOUNT        == 30    \* 0.3
LEVEL_EXP_FACTOR        == 20
LEVEL_HEALTH_BONUS      == 10
LEVEL_STRENGTH_BONUS    == 2
ENEMY_LEVEL_WINDOW      == 2
DEFAULT_LUCK            == 100   \* luck_modifier = 1.0
\* positional parameters of the module-level get_player(user_id)
get_player_params       == 1

Max(a, b) == IF a >= b THEN a ELSE b
Min(a, b) == IF a <= b THEN a ELSE b

\* int(n * pct/100): Python's int() of a float truncates toward zero.
IntScaled(n, pct) ==
    IF n * pct >= 0 THEN (n * pct) \div 100 ELSE -((-(n * pct)) \div 100)

\* The outcomes of `random.random() < p/scale` for a uniform draw in [0,1).
Rolls(p, scale) == {b \in BOOLEAN : (b => p > 0) /\ (~b => p < scale)}

\* ------------------------------------------------------------ data model
\* database/models.py: the two starting attacks of a Player.
StartingAttacks ==
    << [name |-> "sword", damage |-> 10, accuracy |-> 90],
       [name |-> "power", damage |-> 15, accuracy |-> 70] >>

\* database/models.py: Player(user_id) with the dataclass defaults.
\* (last_activity_time, a timestamp, is left out: what a lookup does with
\* it is the dt added to play_time.)
NewPlayer(uid) ==
    [ user_id |-> uid, name |-> "hero", health |-> 100, max_health |-> 100,
      money |-> 0, level |-> 1, exp |-> 0, strength |-> 10, defense |-> 5,
      agility |-> 10, intelligence |-> 10,
      play_time |-> 0, battles_won |-> 0, total_damage_dealt |-> 0,
      inventory |-> << >>, attacks |-> StartingAttacks ]

\* data/enemies.json as loaded by EnemyManager._load_enemies: a catalog in
\* file order.  A weak enemy two hits kill and whose bite (4) does not get
\* through the player's defense (5), a strong one that kills the player in
\* two hits and whose defense (22) exceeds the player's first attack (20),
\* and one no low-level player is offered.
Catalog ==
    << [ name |-> "Rat", level |-> 1, health |-> 30, max_health |-> 30,
         strength |-> 4, defense |-> 0, speed |-> 1,
         attacks |-> << [name |-> "bite", damage |-> 0, accuracy |-> 80] >>,
         exp |-> 25, reward |-> 10,
         drops |-> << <<"tail", 20>> >> ],
       [ name |-> "Ogre", level |-> 3, health |-> 200, max_health |-> 200,
         strength |-> 60, defense |-> 22, speed |-> 1,
         attacks |-> << [name |-> "club", damage |-> 5, accuracy |-> 100] >>,
         exp |-> 65, reward |-> 50,
         drops |-> << >> ],
       [ name |-> "Dragon", level |-> 9, health |-> 500, max_health |-> 500,
         strength |-> 90, defense |-> 40, speed |-> 1,
         attacks |-> << [name |-> "fire", damage |-> 20, accuracy |-> 90] >>,
         exp |-> 500, reward |-> 500,
         drops |-> << >> ] >>

EmptyData == [k \in {} |-> 0]

\* ------------------------------------------------------- persisted format
\* dict.get(k, default) / dict.pop(k, default)
Get(d, k, default) == IF k \in DOMAIN d THEN d[k] ELSE default

\* Item.to_dict: the item's __dict__.
Item_to_dict(item) ==
    [ name |-> item.name, type |-> item.type, quantity |-> item.quantity,
      damage |-> item.damage, defense |-> item.defense,
      heal_amount |-> item.heal_amount ]

\* Item.from_dict on a dict: Item(**data) with the dataclass defaults.
Item_from_dict(data) ==
    [ name |-> data.name, type |-> data.type,
      quantity |-> Get(data, "quantity", 1),
      damage |-> Get(data, "damage", 0),
      defense |-> Get(data, "defense", 0),
      heal_amount |-> Get(data, "heal_amount", 0) ]

\* attack.__dict__ and Attack(**attack_data)
Attack_to_dict(attack) ==
    [ name |-> attack.name, damage |-> attack.damage,
      accuracy |-> attack.accuracy ]

Attack_from_dict(data) ==
    [ name |-> data.name, damage |-> data.damage, accuracy |-> data.accuracy ]

\* A variant that does not write the inventory out.
Player_to_dict_no_inventory(p) ==
    [ user_id |-> p.user_id, name |-> p.name, health |-> p.health,
      max_health |-> p.max_health, money |-> p.money, level |-> p.level,
      exp |-> p.exp, strength |-> p.strength, defense |-> p.defense,
      agility |-> p.agility, intelligence |-> p.intelligence,
      play_time |-> p.play_time, battles_won |-> p.battles_won,
      total_damage_dealt |-> p.total_damage_dealt,
      attacks |-> [i \in DOMAIN p.attacks |-> Attack_to_dict(p.attacks[i])] ]

\* Player.to_dict
Player_to_dict(p) ==
    [ user_id |-> p.user_id, name |-> p.name, health |-> p.health,
      max_health |-> p.max_health, money |-> p.money, level |-> p.level,
      exp |-> p.exp, strength |-> p.strength, defense |-> p.defense,
      agility |-> p.agility, intelligence |-> p.intelligence,
      play_time |-> p.play_time, battles_won |-> p.battles_won,
      total_damage_dealt |-> p.total_damage_dealt,
      inventory |-> [i \in DOMAIN p.inventory |-> Item_to_dict(p.inventory[i])],
      attacks |-> [i \in DOMAIN p.attacks |-> Attack_to_dict(p.attacks[i])] ]

\* Player.from_dict: attacks, level and inventory are popped with the
\* defaults [], 1 and [] and passed explicitly; every other missing key
\* takes the dataclass default.
Player_from_dict(data) ==
    LET default       == NewPlayer(data.user_id)
        raw_attacks   == Get(data, "attacks", << >>)
        level         == Get(data, "level", 1)
        raw_inventory == Get(data, "inventory", << >>)
    IN  [ user_id |-> data.user_id,
          name |-> Get(data, "name", default.name),
          health |-> Get(data, "health", default.health),
          max_health |-> Get(data, "max_health", default.max_health),
          money |-> Get(data, "money", default.money),
          level |-> level,
          exp |-> Get(data, "exp", default.exp),
          strength |-> Get(data, "strength", default.strength),
          defense |-> Get(data, "defense", default.defense),
          agility |-> Get(data, "agility", default.agility),
          intelligence |-> Get(data, "intelligence", default.intelligence),
          play_time |-> Get(data, "play_time", default.play_time),
          battles_won |-> Get(data, "battles_won", default.battles_won),
          total_damage_dealt |->
              Get(data, "total_damage_dealt", default.total_damage_dealt),
          inventory |-> [i \in DOMAIN raw_inventory |->
                            Item_from_dict(raw_inventory[i])],
          attacks |-> [i \in DOMAIN raw_attacks |->
                          Attack_from_dict(raw_attacks[i])] ]

\* The key json.dump writes for the int key k, and int(key) at load.
KeyOf(k) == ToString(k)
IdOf(key) == CHOOSE k \in Users \cup Pair : KeyOf(k) = key

\* {k: v.to_dict() for k, v in self._players.items()} as written to the file
DumpPlayers(ps) ==
    [key \in {KeyOf(k) : k \in DOMAIN ps} |-> Player_to_dict(ps[IdOf(key)])]

\* PlayerManager._load_players: {int(k): Player.from_dict(v)}; a file that
\* is absent or empty, or does not parse, loads as no players and is left
\* as it is.
_load_players(file, parses) ==
    IF parses
    THEN [k \in {IdOf(key) : key \in DOMAIN file} |-> Player_from_dict(file[KeyOf(k)])]
    ELSE EmptyData

\* data/players.json at startup: absent, or the record an earlier run left
\* of a player who took the daily bonus once and is at 90 health, or of a
\* player with no health left.
SavedPlayers ==
    { EmptyData,
      DumpPlayers(1 :> [NewPlayer(1) EXCEPT !.health = 90, !.money = 100]),
      DumpPlayers(1 :> [NewPlayer(1) EXCEPT !.health = 0]) }

\* A players file written before level and attacks were stored.
LegacyPlayers ==
    { (KeyOf(1) :> [ user_id |-> 1, name |-> "hero", health |-> 80,
                     max_health |-> 100, money |-> 40, exp |-> 10,
                     strength |-> 10, defense |-> 5 ]) }

\* dict.update: the keys of new replace or extend those of old.
Update(old, new) ==
    [k \in DOMAIN old \cup DOMAIN new |->
        IF k \in DOMAIN new THEN new[k] ELSE old[k]]

\* [x for x in seq if Test(x)], in order.
RECURSIVE SelectSeqBy(_, _)
SelectSeqBy(seq, S) ==
    IF seq = << >> THEN << >>
    ELSE IF Head(seq) \in S THEN <<Head(seq)>> \o SelectSeqBy(Tail(seq), S)
         ELSE SelectSeqBy(Tail(seq), S)

Range(seq) == {seq[i] : i \in DOMAIN seq}

VARIABLES
    enemies,     \* EnemyManager._enemies: the catalog, read-only after load
    players,     \* PlayerManager._players: user id -> Player
    dirty,       \* PlayerManager._dirty
    disk,        \* the players file: key -> saved record
    saves,       \* writes of the players file made by the last handler
                 \* stretch that used the store
    writable,    \* whether a write of the players file succeeds
    fsmState,    \* MemoryStorage: user id -> FSM state
    fsmData,     \* MemoryStorage: user id -> session data (a dict)
    pc,          \* task -> the await a suspended handler waits at
    local,       \* task -> the handler's local variables
    reply,       \* user id -> the last render payload: a terminal outcome
                 \* (victory, defeat, fled, cancelled), ok, rejected, dead,
                 \* no_enemies or error
    requests     \* gateway events delivered so far

vars == << enemies, players, dirty, disk, saves, writable, fsmState, fsmData,
           pc, local, reply, requests >>

\* ------------------------------------------------------------ Player Store
\* The store as a value: a handler threads it through the calls it makes.
TheStore == [players |-> players, dirty |-> dirty, disk |-> disk, writes |-> 0]

\* A variant that resets the dirty flag whether or not the write succeeded.
_save_players_forgets(st) ==
    IF ~st.dirty THEN st
    ELSE IF writable THEN [st EXCEPT !.disk = DumpPlayers(st.players),
                                     !.dirty = FALSE, !.writes = @ + 1]
    ELSE [st EXCEPT !.dirty = FALSE]

\* PlayerManager._save_players: no-op unless dirty; a failed write (open()
\* or mkdir raising) is caught and leaves the file and the dirty flag as
\* they were.
_save_players(st) ==
    IF ~st.dirty THEN st
    ELSE IF writable THEN [st EXCEPT !.disk = DumpPlayers(st.players),
                                     !.dirty = FALSE, !.writes = @ + 1]
    ELSE st

\* PlayerManager.force_save
force_save(st) == _save_players([st EXCEPT !.dirty = TRUE])

\* A variant that creates the player without saving.
get_player_unsaved(st, uid, dt) ==
    IF uid \notin DOMAIN st.players
    THEN [st EXCEPT !.players = (uid :> NewPlayer(uid)) @@ @, !.dirty = TRUE]
    ELSE [st EXCEPT !.players[uid].play_time = @ + dt, !.dirty = TRUE]

\* PlayerManager.get_player (and the module-level get_player(user_id)):
\* dt is int(current_time - last_activity_time).
get_player(st, uid, dt) ==
    IF uid \notin DOMAIN st.players
    THEN _save_players([st EXCEPT !.players = (uid :> NewPlayer(uid)) @@ @,
                                  !.dirty = TRUE])
    ELSE [st EXCEPT !.players[uid].play_time = @ + dt, !.dirty = TRUE]

\* The values int(current_time - last_activity_time) takes for this lookup.
Elapsed(st, uid) ==
    IF uid \in DOMAIN st.players /\ st.players[uid].play_time < MaxPlayTime
    THEN {0, 1} ELSE {0}

\* --------------------------------------------------------- Progression Rules
calculate_required_exp(level) == level * LEVEL_EXP_FACTOR

\* A variant that appends without looking for an equal item.
MergeItemAppend(inv, item) == Append(inv, item)

\* PlayerOperations.add_item_to_inventory on the inventory list: the first
\* entry with the same name and type gets the quantity, else the item is
\* appended.
MergeItem(inv, item) ==
    LET same == {i \in DOMAIN inv :
                    inv[i].name = item.name /\ inv[i].type = item.type}
    IN  IF same = {} THEN Append(inv, item)
        ELSE LET i == CHOOSE j \in same : \A k \in same : j <= k
             IN  [inv EXCEPT ![i].quantity = @ + item.quantity]

add_item_to_inventory(st, uid, item) ==
    _save_players([st EXCEPT !.players[uid].inventory = MergeItem(@, item),
                             !.dirty = TRUE])

\* A variant that leaves the health where it was.
LevelUpPlayerNoHeal(p) ==
    LET required_exp == calculate_required_exp(p.level)
    IN  IF p.exp >= required_exp
        THEN [p EXCEPT !.level = @ + 1,
                       !.exp = @ - required_exp,
                       !.max_health = @ + LEVEL_HEALTH_BONUS,
                       !.strength = @ + LEVEL_STRENGTH_BONUS]
        ELSE p

\* A variant that raises the level without the strength bonus.
LevelUpPlayerKeepsStrength(p) ==
    LET required_exp == calculate_required_exp(p.level)
    IN  IF p.exp >= required_exp
        THEN [p EXCEPT !.level = @ + 1,
                       !.exp = @ - required_exp,
                       !.max_health = @ + LEVEL_HEALTH_BONUS,
                       !.health = p.max_health + LEVEL_HEALTH_BONUS]
        ELSE p

\* PlayerOperations.level_up on the player record: at most one level.
LevelUpPlayer(p) ==
    LET required_exp == calculate_required_exp(p.level)
    IN  IF p.exp >= required_exp
        THEN [p EXCEPT !.level = @ + 1,
                       !.exp = @ - required_exp,
                       !.max_health = @ + LEVEL_HEALTH_BONUS,
                       !.health = p.max_health + LEVEL_HEALTH_BONUS,
                       !.strength = @ + LEVEL_STRENGTH_BONUS]
        ELSE p

\* A variant that keeps levelling while the experience suffices (twice here).
level_up_cascading(st, uid) ==
    LET p == st.players[uid]
    IN  IF p.exp >= calculate_required_exp(p.level)
        THEN [st EXCEPT !.players[uid] = LevelUpPlayer(LevelUpPlayer(p)),
                        !.dirty = TRUE]
        ELSE st

level_up(st, uid) ==
    LET p == st.players[uid]
    IN  IF p.exp >= calculate_required_exp(p.level)
        THEN [st EXCEPT !.players[uid] = LevelUpPlayer(p), !.dirty = TRUE]
        ELSE st

\* PlayerOperations.add_exp
add_exp(st, uid, exp) ==
    IF exp <= 0 THEN st
    ELSE LET s1 == [st EXCEPT !.players[uid].exp = @ + exp]
             s2 == level_up(s1, uid)
         IN  _save_players([s2 EXCEPT !.dirty = TRUE])

\* PlayerOperations.add_money: unconditional, may go below zero.
add_money(st, uid, money) ==
    _save_players([st EXCEPT !.players[uid].money = @ + money,
                             !.dirty = TRUE])

\* A variant that deducts without looking at the balance.
spend_money_unchecked(st, uid, amount) ==
    _save_players([st EXCEPT !.players[uid].money = @ - amount,
                             !.dirty = TRUE])

\* PlayerOperations.spend_money: the store after the call; the call returns
\* True exactly when the balance covered the amount (SpendMoneyResult).
spend_money(st, uid, amount) ==
    IF st.players[uid].money >= amount
    THEN _save_players([st EXCEPT !.players[uid].money = @ - amount,
                                  !.dirty = TRUE])
    ELSE st

SpendMoneyResult(st, uid, amount) == st.players[uid].money >= amount

\* A variant that adds the amount with no upper clamp.
heal_player_unclamped(st, uid, amount) ==
    IF amount <= 0 THEN st
    ELSE _save_players([st EXCEPT !.players[uid].health = @ + amount,
                                  !.dirty = TRUE])

\* PlayerOperations.heal_player: the store after the call; it saves when
\* the health went up.
heal_player(st, uid, amount) ==
    IF amount <= 0 THEN st
    ELSE LET p == st.players[uid]
             new_health == Min(p.health + amount, p.max_health)
             healed == [st EXCEPT !.players[uid].health = new_health]
         IN  IF new_health - p.health > 0
             THEN _save_players([healed EXCEPT !.dirty = TRUE])
             ELSE healed

\* What heal_player returns: actual_healed.
HealPlayerResult(st, uid, amount) ==
    IF amount <= 0 THEN 0
    ELSE Min(st.players[uid].health + amount, st.players[uid].max_health)
            - st.players[uid].health

\* PlayerOperations.damage_player: the store after the call; it saves when
\* the health went down.
damage_player(st, uid, damage) ==
    IF damage <= 0 THEN st
    ELSE LET p == st.players[uid]
             new_health == Max(0, p.health - damage)
             hurt == [st EXCEPT !.players[uid].health = new_health]
         IN  IF p.health - new_health > 0
             THEN _save_players([hurt EXCEPT !.dirty = TRUE])
             ELSE hurt

\* What damage_player returns: actual_damage.
DamagePlayerResult(st, uid, damage) ==
    IF damage <= 0 THEN 0
    ELSE st.players[uid].health - Max(0, st.players[uid].health - damage)

\* ------------------------------------------------------------ Drop Resolver
\* A variant whose thresholds include their own value.
get_rarity_inclusive(chance) ==
    IF chance >= 50 THEN "common"
    ELSE IF chance >= 10 THEN "uncommon"
    ELSE IF chance >= 5 THEN "rare"
    ELSE "very_rare"

\* DropSystem.get_rarity: chance in percent against 0.5, 0.1, 0.05.
get_rarity(chance) ==
    IF chance > 50 THEN "common"
    ELSE IF chance > 10 THEN "uncommon"
    ELSE IF chance > 5 THEN "rare"
    ELSE "very_rare"

\* DropSystem._calculate_quantity: the values the roll can give.
_calculate_quantity(rarity) ==
    IF rarity = "common" THEN 1..3
    ELSE IF rarity = "uncommon" THEN 1..2
    ELSE {1}

\* A variant that rolls against the base chance, whatever the luck.
RECURSIVE roll_drops_unlucky(_, _)
roll_drops_unlucky(drop_table, luck_modifier) ==
    IF drop_table = << >> THEN { << >> }
    ELSE LET item_name   == Head(drop_table)[1]
             base_chance == Head(drop_table)[2]
             rarity      == get_rarity(base_chance)
             rest        == roll_drops_unlucky(Tail(drop_table), luck_modifier)
             dropped     == { <<[name |-> item_name, quantity |-> q,
                                 rarity |-> rarity]>> \o r :
                              q \in _calculate_quantity(rarity), r \in rest }
         IN  (IF TRUE \in Rolls(base_chance, 100) THEN dropped ELSE {})
             \cup (IF FALSE \in Rolls(base_chance, 100) THEN rest ELSE {})

\* DropSystem.roll_drops: every list of drops the draws can give, in table
\* order.  chance and luck are in percent, their product in 1/10000.
RECURSIVE roll_drops(_, _)
roll_drops(drop_table, luck_modifier) ==
    IF drop_table = << >> THEN { << >> }
    ELSE LET item_name   == Head(drop_table)[1]
             base_chance == Head(drop_table)[2]
             effective   == Min(10000, base_chance * luck_modifier)
             rarity      == get_rarity(base_chance)
             rest        == roll_drops(Tail(drop_table), luck_modifier)
             dropped     == { <<[name |-> item_name, quantity |-> q,
                                 rarity |-> rarity]>> \o r :
                              q \in _calculate_quantity(rarity), r \in rest }
         IN  (IF TRUE \in Rolls(effective, 10000) THEN dropped ELSE {})
             \cup (IF FALSE \in Rolls(effective, 10000) THEN rest ELSE {})

\* DropSystem.roll_monster_drops / MonsterDropManager.get_monster_drops
get_monster_drops(monster, luck_modifier) ==
    IF "drops" \notin DOMAIN monster THEN { << >> }
    ELSE roll_drops(monster.drops, luck_modifier)

\* ------------------------------------------------------------ combat rules
\* Enemy.to_dict: a new dict of the enemy's attributes.
Enemy_to_dict(enemy) ==
    [ name |-> enemy.name, level |-> enemy.level, health |-> enemy.health,
      max_health |-> enemy.max_health, strength |-> enemy.strength,
      defense |-> enemy.defense, speed |-> enemy.speed,
      attacks |-> [i \in DOMAIN enemy.attacks |->
                      Attack_to_dict(enemy.attacks[i])],
      exp |-> enemy.exp, reward |-> enemy.reward, drops |-> enemy.drops ]

\* Enemy.from_dict: a new Enemy; max_health defaults to the health.
Enemy_from_dict(data) ==
    [ name |-> data.name, level |-> data.level, health |-> data.health,
      max_health |-> Get(data, "max_health", data.health),
      strength |-> data.strength, defense |-> data.defense,
      speed |-> data.speed,
      attacks |-> [i \in DOMAIN data.attacks |->
                      Attack_from_dict(data.attacks[i])],
      exp |-> data.exp, reward |-> data.reward, drops |-> data.drops ]

\* A variant in which the fight's Enemy is the catalog's own object: the
\* hit lands on the catalog entry of that name as well.
ApplyDamageShared(catalog, enemy, damage) ==
    [ catalog |-> [i \in DOMAIN catalog |->
                      IF catalog[i].name = enemy.name
                      THEN [catalog[i] EXCEPT !.health = @ - damage]
                      ELSE catalog[i]],
      enemy |-> [enemy EXCEPT !.health = @ - damage] ]

\* enemy.health -= damage on the Enemy that Enemy.from_dict built from the
\* session's dict: a copy, so no catalog entry is touched.
ApplyDamage(catalog, enemy, damage) ==
    [ catalog |-> catalog,
      enemy |-> [enemy EXCEPT !.health = @ - damage] ]

\* A variant without the floor at zero.
BaseDamageUnclamped(strength, attack_damage, defense) ==
    strength + attack_damage - defense

\* max(0, attacker strength + attack damage - defender defense)
BaseDamage(strength, attack_damage, defense) ==
    Max(0, strength + attack_damage - defense)

\* player.attacks[attack_index] with Python's indexing: -1 is the last one.
AttackIndexOk(attacks, i) == -Len(attacks) <= i /\ i < Len(attacks)
AttackAt(attacks, i) == IF i >= 0 THEN attacks[i + 1] ELSE attacks[Len(attacks) + i + 1]

\* handle_victory up to its first await: drops merged, experience, money,
\* battles_won, then force_save.
RECURSIVE AddDrops(_, _, _)
AddDrops(st, uid, drops) ==
    IF drops = << >> THEN st
    ELSE AddDrops(add_item_to_inventory(st, uid,
                      [name |-> Head(drops).name, type |-> "misc",
                       quantity |-> Head(drops).quantity, damage |-> 0,
                       defense |-> 0, heal_amount |-> 0]),
                  uid, Tail(drops))

\* A variant without the force_save after battles_won is raised.
handle_victory_unsaved(st, uid, enemy, drops) ==
    LET s1 == AddDrops(st, uid, drops)
        s2 == add_exp(s1, uid, enemy.exp)
        s3 == add_money(s2, uid, enemy.reward)
    IN  [s3 EXCEPT !.players[uid].battles_won = @ + 1]

handle_victory(st, uid, enemy, drops) ==
    LET s1 == AddDrops(st, uid, drops)
        s2 == add_exp(s1, uid, enemy.exp)
        s3 == add_money(s2, uid, enemy.reward)
        s4 == [s3 EXCEPT !.players[uid].battles_won = @ + 1]
    IN  force_save(s4)

\* A variant that takes a tenth of the money with no minimum of 1.
DefeatMoneyLostNoMin(money) == IntScaled(money, DEFEAT_MONEY_LOSS)

\* A variant that forgets to restore the health.
handle_defeat_no_restore(st, uid) ==
    add_money(st, uid, -Max(1, IntScaled(st.players[uid].money, DEFEAT_MONEY_LOSS)))

\* handle_defeat up to its first await: health restored to half, a tenth of
\* the money (at least 1) taken through add_money.
DefeatMoneyLost(money) == Max(1, IntScaled(money, DEFEAT_MONEY_LOSS))

handle_defeat(st, uid) ==
    LET p  == st.players[uid]
        s1 == [st EXCEPT !.players[uid].health =
                            IntScaled(p.max_health, DEFEAT_HEALTH_RESTORE)]
    IN  add_money(s1, uid, -DefeatMoneyLost(p.money))

\* ------------------------------------------------------------ scheduling
Commit(st) ==
    /\ players' = st.players
    /\ dirty' = st.dirty
    /\ disk' = st.disk
    /\ saves' = st.writes

\* A new gateway event is delivered (bot.py handle_webhook).
Deliver ==
    /\ requests < MaxRequests
    /\ requests' = requests + 1

\* The task slot a handler that may suspend runs in.
FreeTask(t) ==
    /\ pc[t] = "idle"
    /\ \A s \in Tasks : s < t => pc[s] # "idle"

Suspend(t, label, loc) ==
    /\ pc' = [pc EXCEPT ![t] = label]
    /\ local' = [local EXCEPT ![t] = loc]

Finish(t) ==
    /\ pc' = [pc EXCEPT ![t] = "idle"]
    /\ local' = [local EXCEPT ![t] = EmptyData]

\* FSMContext.set_state / update_data / clear on MemoryStorage
\* A variant whose storage key leaves out the user: one session for all.
SetSessionAll(u, state, data) ==
    /\ fsmState' = [v \in DOMAIN fsmState |-> state]
    /\ fsmData' = [v \in DOMAIN fsmData |-> data]

\* FSMContext.set_state / set_data under the storage key of user u.
SetSession(u, state, data) ==
    /\ fsmState' = [fsmState EXCEPT ![u] = state]
    /\ fsmData' = [fsmData EXCEPT ![u] = data]

\* A variant that resets the state and keeps the data.
ClearSessionStateOnly(u) == SetSession(u, "none", fsmData[u])

ClearSession(u) == SetSession(u, "none", EmptyData)

Reply(u, kind) == reply' = [reply EXCEPT ![u] = kind]

Init ==
    /\ enemies \in {Catalog, << >>}
    /\ disk \in SavedPlayers
    /\ players = _load_players(disk, TRUE)
    /\ dirty = FALSE
    /\ saves = 0
    /\ writable = TRUE
    /\ fsmState = [u \in Users |-> "none"]
    /\ fsmData = [u \in Users |-> EmptyData]
    /\ pc = [t \in Tasks |-> "idle"]
    /\ local = [t \in Tasks |-> EmptyData]
    /\ reply = [u \in Users |-> "none"]
    /\ requests = 0

\* ------------------------------------------------------------- main menu
\* start_game and menu_handler: any state, no state filter.
OpenMenu(u) ==
    /\ Deliver
    /\ \E dt \in Elapsed(TheStore, u) :
          Commit(get_player(TheStore, u, dt))
    /\ SetSession(u, "main_menu", Update(fsmData[u], [player_id |-> u]))
    /\ Reply(u, "ok")
    /\ UNCHANGED << enemies, writable, pc, local >>

start_game(u) == OpenMenu(u)

menu_handler(u) == OpenMenu(u)

\* data.get('player_id', callback.from_user.id)
SessionPlayer(u) ==
    IF "player_id" \in DOMAIN fsmData[u] THEN fsmData[u].player_id ELSE u

\* heal_handler: callback heal_full / heal_half, any state.
HealAmount(p, heal_type) ==
    IF heal_type = "full" THEN p.max_health - p.health
    ELSE (p.max_health - p.health) \div 2

heal_handler(u, heal_type) ==
    /\ Deliver
    /\ \E dt \in Elapsed(TheStore, SessionPlayer(u)) :
          LET uid  == SessionPlayer(u)
              s1   == get_player(TheStore, uid, dt)
              p    == s1.players[uid]
              amt  == HealAmount(p, heal_type)
              cost == amt * HEAL_COST_PER_HP
          IN  IF p.money >= cost
              THEN /\ Commit(force_save(add_money(
                          [s1 EXCEPT !.players[uid].health = @ + amt],
                          uid, -cost)))
                   /\ Reply(u, "ok")
              ELSE /\ Commit(s1)
                   /\ Reply(u, "rejected")
    /\ UNCHANGED << enemies, writable, fsmState, fsmData, pc, local >>

\* rest_handler: callback rest, any state; the player is not saved.
rest_handler(u) ==
    /\ Deliver
    /\ \E dt \in Elapsed(TheStore, SessionPlayer(u)) :
          LET uid == SessionPlayer(u)
              s1  == get_player(TheStore, uid, dt)
              p   == s1.players[uid]
              heal_amount == IntScaled(p.max_health, REST_HEAL_AMOUNT)
              new_health  == Min(p.max_health, p.health + heal_amount)
          IN  IF new_health - p.health > 0
              THEN /\ Commit([s1 EXCEPT !.players[uid].health = new_health])
                   /\ Reply(u, "ok")
              ELSE /\ Commit(s1)
                   /\ Reply(u, "rejected")
    /\ UNCHANGED << enemies, writable, fsmState, fsmData, pc, local >>

\* daily_bonus_handler: callback daily_bonus, any state.
daily_bonus_handler(u) ==
    /\ Deliver
    /\ \E dt \in Elapsed(TheStore, SessionPlayer(u)) :
          LET uid == SessionPlayer(u)
              s1  == get_player(TheStore, uid, dt)
          IN  Commit(add_money(s1, uid, DAILY_BONUS_AMOUNT))
    /\ Reply(u, "ok")
    /\ UNCHANGED << enemies, writable, fsmState, fsmData, pc, local >>

\* ------------------------------------------------------------- initiate
\* A variant that offers the whole catalog.
AvailableEnemiesAll(level) == enemies

\* A variant that lets a player with no health fight.
PlayerIsDeadNever(health) == FALSE

\* if player.health <= 0: refused
PlayerIsDead(health) == health <= 0

AvailableEnemies(level) ==
    SelectSeqBy(enemies,
        {e \in Range(enemies) : e.level <= level + ENEMY_LEVEL_WINDOW})

\* initiate_fight: reached from any state by /fight or the fight button.
initiate_fight(u) ==
    /\ Deliver
    /\ \E dt \in Elapsed(TheStore, u) :
          LET s1 == get_player(TheStore, u, dt)
              p  == s1.players[u]
              available_enemies == AvailableEnemies(p.level)
          IN  /\ Commit(s1)
              /\ IF PlayerIsDead(p.health)
                 THEN Reply(u, "dead") /\ UNCHANGED << fsmState, fsmData >>
                 ELSE IF available_enemies = << >>
                 THEN Reply(u, "no_enemies") /\ UNCHANGED << fsmState, fsmData >>
                 ELSE /\ SetSession(u, "selecting_enemy",
                            Update(fsmData[u],
                                [player_id |-> u,
                                 available_enemies |->
                                     [i \in DOMAIN available_enemies |->
                                         Enemy_to_dict(available_enemies[i])]]))
                      /\ Reply(u, "ok")
    /\ UNCHANGED << enemies, writable, pc, local >>

fight_handler(u) == initiate_fight(u)

quick_fight_handler(u) == initiate_fight(u)

\* ------------------------------------------------------- enemy selection
\* Callback data that reaches enemy_selection_handler: every token the menu
\* router does not take.  "defend" stands for a token of an old keyboard.
SelectionTokens ==
    { [kind |-> "cancel", name |-> ""], [kind |-> "random", name |-> ""],
      [kind |-> "other", name |-> "defend"] }
    \cup { [kind |-> "select", name |-> n] : n \in {"Rat", "Ogre", "Dragon", "Ghost"} }

\* enemy_selection_handler (state selecting_enemy).
enemy_selection_handler(t, u, token) ==
    /\ Deliver
    /\ FreeTask(t)
    /\ fsmState[u] = "selecting_enemy"
    /\ UNCHANGED << enemies, writable >>
    /\ IF ~({"player_id", "available_enemies"} \subseteq DOMAIN fsmData[u])
       THEN \* KeyError: caught, session cleared
            /\ ClearSession(u)
            /\ Reply(u, "error")
            /\ UNCHANGED << players, dirty, disk, saves, pc, local >>
       ELSE \E dt \in Elapsed(TheStore, fsmData[u].player_id) :
            LET data == fsmData[u]
                s1   == get_player(TheStore, data.player_id, dt)
                available_enemies ==
                    [i \in DOMAIN data.available_enemies |->
                        Enemy_from_dict(data.available_enemies[i])]
                named == {e \in Range(available_enemies) : e.name = token.name}
                StartCombat(enemy) ==
                    /\ SetSession(u, "in_combat",
                          Update(data, [enemy |-> Enemy_to_dict(enemy),
                                        player_id |-> data.player_id,
                                        turn_count |-> 1,
                                        combat_log |-> << >>]))
                    /\ Reply(u, "ok")
                    /\ UNCHANGED << pc, local >>
            IN  /\ Commit(s1)
                /\ CASE token.kind = "cancel" ->
                          \* edit_text is awaited before state.clear()
                          /\ Suspend(t, "cancel_clear", [user |-> u])
                          /\ Reply(u, "cancelled")
                          /\ UNCHANGED << fsmState, fsmData >>
                     [] token.kind = "random" ->
                          \E enemy \in Range(available_enemies) : StartCombat(enemy)
                     [] token.kind = "select" /\ named # {} ->
                          \E enemy \in named : StartCombat(enemy)
                     [] token.kind = "select" /\ named = {} ->
                          /\ Reply(u, "rejected")
                          /\ UNCHANGED << fsmState, fsmData, pc, local >>
                     [] OTHER ->
                          \* split("select_enemy_")[1] raises IndexError
                          /\ ClearSession(u)
                          /\ Reply(u, "error")
                          /\ UNCHANGED << pc, local >>

\* The continuation of a cancel: state.clear().
cancel_clear(t) ==
    /\ pc[t] = "cancel_clear"
    /\ ClearSession(local[t].user)
    /\ Finish(t)
    /\ UNCHANGED << enemies, players, dirty, disk, saves, writable, reply, requests >>

\* ---------------------------------------------------------------- attack
\* The text after "attack_": a number or not.
AttackTokens ==
    { [digits |-> TRUE, value |-> i] : i \in {-3, -1, 0, 1, 2} }
    \cup { [digits |-> FALSE, value |-> 0] }

\* attack_handler up to its first suspension (send_chat_action, sleep 0.5).
attack_handler(t, u, token) ==
    /\ Deliver
    /\ FreeTask(t)
    /\ fsmState[u] = "in_combat"
    /\ UNCHANGED << enemies, writable >>
    /\ IF "player_id" \notin DOMAIN fsmData[u]
       THEN /\ ClearSession(u)
            /\ Reply(u, "error")
            /\ UNCHANGED << players, dirty, disk, saves, pc, local >>
       ELSE \E dt \in Elapsed(TheStore, fsmData[u].player_id) :
            LET data == fsmData[u]
                uid  == data.player_id
                s1   == get_player(TheStore, uid, dt)
                attacks == s1.players[uid].attacks
            IN  /\ Commit(s1)
                /\ IF "enemy" \notin DOMAIN data
                   THEN /\ ClearSession(u)
                        /\ Reply(u, "error")
                        /\ UNCHANGED << pc, local >>
                   ELSE IF ~token.digits \/ token.value >= Len(attacks)
                   THEN \* ValueError or index too large: rejected
                        /\ Reply(u, "rejected")
                        /\ UNCHANGED << fsmState, fsmData, pc, local >>
                   ELSE IF ~AttackIndexOk(attacks, token.value)
                   THEN \* player.attacks[i] raises IndexError: outer except
                        /\ ClearSession(u)
                        /\ Reply(u, "error")
                        /\ UNCHANGED << pc, local >>
                   ELSE /\ Suspend(t, "player_turn",
                              [user |-> u, player_id |-> uid,
                               enemy |-> Enemy_from_dict(data.enemy),
                               turn_count |-> IF "turn_count" \in DOMAIN data
                                              THEN data.turn_count ELSE 1,
                               attack |-> AttackAt(attacks, token.value)])
                        /\ UNCHANGED << fsmState, fsmData, reply >>

\* The player's damage for one hit.
PlayerDamage(p, attack, enemy, is_critical) ==
    LET base_damage == BaseDamage(p.strength, attack.damage, enemy.defense)
    IN  IF is_critical THEN IntScaled(base_damage, CRITICAL_HIT_MULTIPLIER)
        ELSE base_damage

\* A variant without the victory check between the two turns.
AfterPlayerTurnNoCheck(enemy_health) == "enemy_turn"

\* Where attack_handler goes after the player's turn: Victory is checked
\* before the enemy's turn.
AfterPlayerTurn(enemy_health) ==
    IF enemy_health <= 0 THEN "victory" ELSE "enemy_turn"

\* attack_handler from the player's roll to the next suspension: either
\* handle_victory up to its edit_text, or the sleep before the enemy's turn.
player_turn(t) ==
    /\ pc[t] = "player_turn"
    /\ UNCHANGED << writable, fsmState, fsmData, requests >>
    /\ \E hit \in Rolls(local[t].attack.accuracy, 100),
          is_critical \in Rolls(CRITICAL_HIT_CHANCE, 100) :
          LET loc    == local[t]
              uid    == loc.player_id
              p      == players[uid]
              damage == IF hit THEN PlayerDamage(p, loc.attack, loc.enemy, is_critical)
                        ELSE 0
              struck == ApplyDamage(enemies, loc.enemy, damage)
              enemy  == struck.enemy
              s1     == [TheStore EXCEPT
                            !.players[uid].total_damage_dealt = @ + damage]
          IN  /\ enemies' = struck.catalog
              /\ IF AfterPlayerTurn(enemy.health) = "victory"
                 THEN \E drops \in get_monster_drops(enemy, DEFAULT_LUCK) :
                         /\ Commit(handle_victory(s1, uid, enemy, drops))
                         /\ Suspend(t, "victory_clear",
                                    [user |-> loc.user, player_id |-> uid])
                         /\ Reply(loc.user, "victory")
                 ELSE /\ Commit(s1)
                      /\ Suspend(t, "enemy_turn", [loc EXCEPT !.enemy = enemy])
                      /\ UNCHANGED reply

\* The enemy's counter-attack: damage against a defense.
EnemyDamage(enemy, enemy_attack, defense) ==
    BaseDamage(enemy.strength, enemy_attack.damage, defense)

\* A variant that does not write the session back.
AfterEnemyTurnNoUpdate(t, u, st, uid, data_update) ==
    IF st.players[uid].health <= 0
    THEN /\ Commit(handle_defeat(st, uid))
         /\ Suspend(t, "defeat_clear", [user |-> u, player_id |-> uid])
         /\ Reply(u, "defeat")
         /\ UNCHANGED << fsmState, fsmData >>
    ELSE /\ Commit(st)
         /\ Finish(t)
         /\ Reply(u, "ok")
         /\ UNCHANGED << fsmState, fsmData >>

\* The end of a turn the player survived or not: Defeat up to its edit_text,
\* or the session written back.
AfterEnemyTurn(t, u, st, uid, data_update) ==
    IF st.players[uid].health <= 0
    THEN /\ Commit(handle_defeat(st, uid))
         /\ Suspend(t, "defeat_clear", [user |-> u, player_id |-> uid])
         /\ Reply(u, "defeat")
         /\ UNCHANGED << fsmState, fsmData >>
    ELSE /\ Commit(st)
         /\ fsmData' = [fsmData EXCEPT ![u] = Update(@, data_update)]
         /\ Finish(t)
         /\ Reply(u, "ok")
         /\ UNCHANGED fsmState

\* attack_handler from the enemy's roll to the end.
enemy_turn(t) ==
    /\ pc[t] = "enemy_turn"
    /\ UNCHANGED << enemies, writable, requests >>
    /\ \E enemy_attack \in Range(local[t].enemy.attacks) :
       \E hit \in Rolls(enemy_attack.accuracy, 100) :
          LET loc == local[t]
              uid == loc.player_id
              enemy_damage == IF hit
                              THEN EnemyDamage(loc.enemy, enemy_attack,
                                               players[uid].defense)
                              ELSE 0
              s1 == [TheStore EXCEPT !.players[uid].health = @ - enemy_damage]
          IN  AfterEnemyTurn(t, loc.user,
                  IF s1.players[uid].health <= 0 THEN s1 ELSE force_save(s1),
                  uid,
                  [enemy |-> Enemy_to_dict(loc.enemy),
                   turn_count |-> loc.turn_count + 1])

\* The continuations of Victory and Defeat: state.clear().
victory_clear(t) ==
    /\ pc[t] = "victory_clear"
    /\ ClearSession(local[t].user)
    /\ Finish(t)
    /\ UNCHANGED << enemies, players, dirty, disk, saves, writable, reply, requests >>

defeat_clear(t) ==
    /\ pc[t] = "defeat_clear"
    /\ ClearSession(local[t].user)
    /\ Finish(t)
    /\ UNCHANGED << enemies, players, dirty, disk, saves, writable, reply, requests >>

\* ---------------------------------------------------------------- defend
\* A variant with no bonus for defending.
DefenseBonusNone(defense) == 0

\* defense_bonus = player.defense // 2
DefenseBonus(defense) == defense \div 2

\* defend_handler: no suspension before the enemy's attack is applied; the
\* except branch answers without clearing the session, and nothing saves.
defend_handler(t, u) ==
    /\ Deliver
    /\ FreeTask(t)
    /\ fsmState[u] = "in_combat"
    /\ UNCHANGED << enemies, writable >>
    /\ IF ~({"player_id", "enemy"} \subseteq DOMAIN fsmData[u])
       THEN /\ Reply(u, "error")
            /\ UNCHANGED << players, dirty, disk, saves, fsmState, fsmData, pc, local >>
       ELSE \E dt \in Elapsed(TheStore, fsmData[u].player_id) :
            \E enemy_attack \in Range(fsmData[u].enemy.attacks) :
            \E hit \in Rolls(enemy_attack.accuracy, 100) :
            LET data == fsmData[u]
                uid  == data.player_id
                s1   == get_player(TheStore, uid, dt)
                p    == s1.players[uid]
                turn_count == IF "turn_count" \in DOMAIN data
                              THEN data.turn_count ELSE 1
                defense_bonus == DefenseBonus(p.defense)
                enemy_damage ==
                    IF hit THEN EnemyDamage(data.enemy, enemy_attack,
                                            p.defense + defense_bonus)
                    ELSE 0
                s2 == [s1 EXCEPT !.players[uid].health = @ - enemy_damage]
            IN  AfterEnemyTurn(t, u, s2, uid, [turn_count |-> turn_count + 1])

\* ------------------------------------------------------------------ flee
\* Whether a call of the module-level get_player with nargs positional
\* arguments raises TypeError.
get_player_raises(nargs) == nargs > get_player_params

\* max(1, player.money // 20)
FleeTax(money) == Max(1, money \div FLEE_TAX_DIVISOR)

\* flee_handler: it calls get_player(data['player_id'], full_name); its
\* except branch answers without clearing the session.  escaped is the
\* draw random.random() < 0.7.
flee_handler(t, u, escaped) ==
    /\ Deliver
    /\ FreeTask(t)
    /\ fsmState[u] = "in_combat"
    /\ UNCHANGED << enemies, writable >>
    /\ IF \/ ~({"player_id", "enemy"} \subseteq DOMAIN fsmData[u])
          \/ get_player_raises(2)
       THEN /\ Reply(u, "error")
            /\ UNCHANGED << players, dirty, disk, saves, fsmState, fsmData, pc, local >>
       ELSE \E dt \in Elapsed(TheStore, fsmData[u].player_id) :
            \E enemy_attack \in Range(fsmData[u].enemy.attacks) :
            LET data == fsmData[u]
                uid  == data.player_id
                s1   == get_player(TheStore, uid, dt)
                p    == s1.players[uid]
                turn_count == IF "turn_count" \in DOMAIN data
                              THEN data.turn_count ELSE 1
                enemy_damage == EnemyDamage(data.enemy, enemy_attack, p.defense)
                s2 == [s1 EXCEPT !.players[uid].health = @ - enemy_damage]
            IN  IF escaped
                THEN /\ Commit(add_money(s1, uid, -FleeTax(p.money)))
                     /\ ClearSession(u)
                     /\ Reply(u, "fled")
                     /\ UNCHANGED << pc, local >>
                ELSE AfterEnemyTurn(t, u, s2, uid,
                                    [turn_count |-> turn_count + 1])

\* ----------------------------------------------------------------- stats
\* stats_handler of the combat router (state in_combat).
stats_handler(u) ==
    /\ Deliver
    /\ fsmState[u] = "in_combat"
    /\ IF ~({"player_id", "enemy"} \subseteq DOMAIN fsmData[u])
       THEN /\ Reply(u, "error")
            /\ UNCHANGED << players, dirty, disk, saves >>
       ELSE /\ \E dt \in Elapsed(TheStore, fsmData[u].player_id) :
                  Commit(get_player(TheStore, fsmData[u].player_id, dt))
            /\ Reply(u, "ok")
    /\ UNCHANGED << enemies, writable, fsmState, fsmData, pc, local >>

\* ------------------------------------------------------------------ next
Next ==
    \/ \E u \in Users : start_game(u)
    \/ \E u \in Users : menu_handler(u)
    \/ \E u \in Users, heal_type \in {"full", "half"} : heal_handler(u, heal_type)
    \/ \E u \in Users : rest_handler(u)
    \/ \E u \in Users : daily_bonus_handler(u)
    \/ \E u \in Users : fight_handler(u)
    \/ \E u \in Users : quick_fight_handler(u)
    \/ \E t \in Tasks, u \in Users, token \in SelectionTokens :
          enemy_selection_handler(t, u, token)
    \/ \E t \in Tasks : cancel_clear(t)
    \/ \E t \in Tasks, u \in Users, token \in AttackTokens :
          attack_handler(t, u, token)
    \/ \E t \in Tasks : player_turn(t)
    \/ \E t \in Tasks : enemy_turn(t)
    \/ \E t \in Tasks : victory_clear(t)
    \/ \E t \in Tasks : defeat_clear(t)
    \/ \E t \in Tasks, u \in Users : defend_handler(t, u)
    \/ \E t \in Tasks, u \in Users, escaped \in Rolls(FLEE_CHANCE, 100) :
          flee_handler(t, u, escaped)
    \/ \E u \in Users : stats_handler(u)

Spec == Init /\ [][Next]_vars

\* ------------------------------------------------------- the Player Store
\* The public calls of PlayerManager and PlayerOperations, one call to an
\* action, on a players file whose writes may fail.  reply holds what the
\* call returned.
ExpAmounts   == {-5, 0, 5, 25, 100}
MoneyAmounts == {-30, 50}
SpendAmounts == {-10, 0, 30, 100, 101}

StoreInit ==
    /\ enemies = << >>
    /\ \E file \in SavedPlayers \cup LegacyPlayers, parses \in BOOLEAN :
          /\ disk = file
          /\ players = _load_players(file, parses)
    /\ dirty = FALSE
    /\ saves = 0
    /\ writable \in BOOLEAN
    /\ fsmState = [u \in Users |-> "none"]
    /\ fsmData = [u \in Users |-> EmptyData]
    /\ pc = [t \in Tasks |-> "idle"]
    /\ local = [t \in Tasks |-> EmptyData]
    /\ reply = [u \in Users |-> "none"]
    /\ requests = 0

Returned(kind) == reply' = [u \in Users |-> kind]

BoolName(b) == IF b THEN "true" ELSE "false"

\* The file system: writes of the players file start or stop failing.
set_writable(b) ==
    /\ writable # b
    /\ writable' = b
    /\ UNCHANGED << enemies, players, dirty, disk, saves, fsmState, fsmData,
                    pc, local, reply, requests >>

Call_save_players ==
    /\ Deliver
    /\ Commit(_save_players(TheStore))
    /\ Returned("save_returned")
    /\ UNCHANGED << enemies, writable, fsmState, fsmData, pc, local >>

Call_force_save ==
    /\ Deliver
    /\ Commit(force_save(TheStore))
    /\ Returned("save_returned")
    /\ UNCHANGED << enemies, writable, fsmState, fsmData, pc, local >>

Call_get_player(u) ==
    /\ Deliver
    /\ \E dt \in Elapsed(TheStore, u) : Commit(get_player(TheStore, u, dt))
    /\ Returned("player")
    /\ UNCHANGED << enemies, writable, fsmState, fsmData, pc, local >>

Call_level_up(u) ==
    /\ Deliver
    /\ u \in DOMAIN players
    /\ Commit(level_up(TheStore, u))
    /\ Returned("level_up_" \o BoolName(
            players[u].exp >= calculate_required_exp(players[u].level)))
    /\ UNCHANGED << enemies, writable, fsmState, fsmData, pc, local >>

Call_add_exp(u, exp) ==
    /\ Deliver
    /\ u \in DOMAIN players
    /\ Commit(add_exp(TheStore, u, exp))
    /\ Returned("add_exp_" \o BoolName(
            /\ exp > 0
            /\ players[u].exp + exp >= calculate_required_exp(players[u].level)))
    /\ UNCHANGED << enemies, writable, fsmState, fsmData, pc, local >>

Call_add_money(u, money) ==
    /\ Deliver
    /\ u \in DOMAIN players
    /\ Commit(add_money(TheStore, u, money))
    /\ Returned("none")
    /\ UNCHANGED << enemies, writable, fsmState, fsmData, pc, local >>

Call_spend_money(u, amount) ==
    /\ Deliver
    /\ u \in DOMAIN players
    /\ Commit(spend_money(TheStore, u, amount))
    /\ Returned("spend_money_" \o BoolName(SpendMoneyResult(TheStore, u, amount)))
    /\ UNCHANGED << enemies, writable, fsmState, fsmData, pc, local >>

StoreNext ==
    \/ \E b \in BOOLEAN : set_writable(b)
    \/ Call_save_players
    \/ Call_force_save
    \/ \E u \in Users : Call_get_player(u)
    \/ \E u \in Users : Call_level_up(u)
    \/ \E u \in Users, exp \in ExpAmounts : Call_add_exp(u, exp)
    \/ \E u \in Users, money \in MoneyAmounts : Call_add_money(u, money)
    \/ \E u \in Users, amount \in SpendAmounts : Call_spend_money(u, amount)

StoreSpec == StoreInit /\ [][StoreNext]_vars

\* -------------------------------------------------------- heal and damage
\* Calls of PlayerOperations.heal_player and damage_player on the players
\* of the store; the last call and what it returned are kept in local[1].
HealthAmounts == {-5, 0, 10, 30, 95, 200}

Call_heal_player(u, amount) ==
    /\ Deliver
    /\ u \in DOMAIN players
    /\ Commit(heal_player(TheStore, u, amount))
    /\ local' = [local EXCEPT ![1] =
                    [call |-> "heal_player", uid |-> u, amount |-> amount,
                     returned |-> HealPlayerResult(TheStore, u, amount)]]
    /\ Returned("int")
    /\ UNCHANGED << enemies, writable, fsmState, fsmData, pc >>

Call_damage_player(u, damage) ==
    /\ Deliver
    /\ u \in DOMAIN players
    /\ Commit(damage_player(TheStore, u, damage))
    /\ local' = [local EXCEPT ![1] =
                    [call |-> "damage_player", uid |-> u, amount |-> damage,
                     returned |-> DamagePlayerResult(TheStore, u, damage)]]
    /\ Returned("int")
    /\ UNCHANGED << enemies, writable, fsmState, fsmData, pc >>

HealthNext ==
    \/ \E u \in Users : Call_get_player(u)
    \/ \E u \in Users, amount \in HealthAmounts : Call_heal_player(u, amount)
    \/ \E u \in Users, damage \in HealthAmounts : Call_damage_player(u, damage)

HealthSpec == StoreInit /\ [][HealthNext]_vars

\* ------------------------------------------------------------ two players
\* The handlers with the updates of two players interleaved: each user has
\* an FSM context of their own (MemoryStorage keys by chat and user), and
\* the store holds both players.
PairInit ==
    /\ enemies = Catalog
    /\ disk = EmptyData
    /\ players = _load_players(disk, TRUE)
    /\ dirty = FALSE
    /\ saves = 0
    /\ writable = TRUE
    /\ fsmState = [u \in Pair |-> "none"]
    /\ fsmData = [u \in Pair |-> EmptyData]
    /\ pc = [t \in Tasks |-> "idle"]
    /\ local = [t \in Tasks |-> EmptyData]
    /\ reply = [u \in Pair |-> "none"]
    /\ requests = 0

PairNext ==
    \/ \E u \in Pair : start_game(u)
    \/ \E u \in Pair : menu_handler(u)
    \/ \E u \in Pair, heal_type \in {"full", "half"} : heal_handler(u, heal_type)
    \/ \E u \in Pair : rest_handler(u)
    \/ \E u \in Pair : daily_bonus_handler(u)
    \/ \E u \in Pair : fight_handler(u)
    \/ \E u \in Pair : quick_fight_handler(u)
    \/ \E t \in Tasks, u \in Pair, token \in SelectionTokens :
          enemy_selection_handler(t, u, token)
    \/ \E t \in Tasks : cancel_clear(t)
    \/ \E t \in Tasks, u \in Pair, token \in AttackTokens :
          attack_handler(t, u, token)
    \/ \E t \in Tasks : player_turn(t)
    \/ \E t \in Tasks : enemy_turn(t)
    \/ \E t \in Tasks : victory_clear(t)
    \/ \E t \in Tasks : defeat_clear(t)
    \/ \E t \in Tasks, u \in Pair : defend_handler(t, u)
    \/ \E t \in Tasks, u \in Pair, escaped \in Rolls(FLEE_CHANCE, 100) :
          flee_handler(t, u, escaped)
    \/ \E u \in Pair : stats_handler(u)

PairSpec == PairInit /\ [][PairNext]_vars

\* ---------------------------------------------------------------- startup
\* The import of utils.player_utils and utils.enemies: player_manager =
\* PlayerManager() and enemy_manager = EnemyManager() load their files.  An
\* exception neither loader catches leaves the import, and the process ends
\* with a traceback before it serves anything.
PlayerFields == DOMAIN Player_to_dict(NewPlayer(1)) \cup {"last_activity_time"}

\* Player.from_dict raises TypeError: cls(**data_copy) with an unknown
\* keyword, or without the required user_id.
Player_from_dict_raises(data) ==
    \/ "user_id" \notin DOMAIN data
    \/ ~(DOMAIN data \subseteq PlayerFields)

\* Enemy.from_dict raises KeyError: data['...'] of a key that is not there.
Enemy_from_dict_raises(data) ==
    ~({"name", "level", "health", "strength", "defense", "speed", "attacks",
       "exp", "reward", "drops"} \subseteq DOMAIN data)

\* Whether PlayerManager._load_players raises: its except clause names
\* FileNotFoundError and JSONDecodeError only.
_load_players_raises(file, parses) ==
    parses /\ \E key \in DOMAIN file : Player_from_dict_raises(file[key])

\* EnemyManager._load_enemies: the file's entries in file order, or no
\* enemies for a file that is absent or does not parse; and whether it
\* raises.
_load_enemies_raises(file, parses) ==
    parses /\ \E i \in DOMAIN file : Enemy_from_dict_raises(file[i])

_load_enemies(file, parses) ==
    IF parses THEN [i \in DOMAIN file |-> Enemy_from_dict(file[i])] ELSE << >>

\* Players files with a record of the wrong shape: an unknown field, and no
\* user_id.
MalformedPlayers ==
    { (KeyOf(1) :> [ user_id |-> 1, name |-> "hero", health |-> 100,
                     mana |-> 5 ]),
      (KeyOf(1) :> [ name |-> "hero", health |-> 100 ]) }

\* data/enemies.json: absent or empty, the catalog, and a catalog whose
\* first entry has no speed.
EnemyFiles ==
    { << >>,
      [i \in DOMAIN Catalog |-> Enemy_to_dict(Catalog[i])],
      << [ name |-> "Rat", level |-> 1, health |-> 30, strength |-> 4,
           defense |-> 0,
           attacks |-> << [name |-> "bite", damage |-> 0, accuracy |-> 80] >>,
           exp |-> 25, reward |-> 10, drops |-> << >> ] >> }

StartupInit ==
    /\ enemies = << >>
    /\ players = EmptyData
    /\ disk \in SavedPlayers \cup LegacyPlayers \cup MalformedPlayers
    /\ dirty = FALSE
    /\ saves = 0
    /\ writable = TRUE
    /\ fsmState = [u \in Users |-> "none"]
    /\ fsmData = [u \in Users |-> EmptyData]
    /\ pc = [t \in Tasks |-> "startup"]
    /\ local = [t \in Tasks |-> EmptyData]
    /\ reply = [u \in Users |-> "none"]
    /\ requests = 0

Started == \A t \in Tasks : pc[t] \notin {"startup", "crashed"}

Startup ==
    /\ \A t \in Tasks : pc[t] = "startup"
    /\ \E parses \in BOOLEAN, enemy_file \in EnemyFiles, enemies_parse \in BOOLEAN :
          IF \/ _load_players_raises(disk, parses)
             \/ _load_enemies_raises(enemy_file, enemies_parse)
          THEN /\ pc' = [t \in Tasks |-> "crashed"]
               /\ UNCHANGED << enemies, players >>
          ELSE /\ pc' = [t \in Tasks |-> "idle"]
               /\ players' = _load_players(disk, parses)
               /\ enemies' = _load_enemies(enemy_file, enemies_parse)
    /\ UNCHANGED << dirty, disk, saves, writable, fsmState, fsmData, local,
                    reply, requests >>

StartupNext ==
    \/ Startup
    \/ \E u \in Users : Started /\ Call_get_player(u)
    \/ \E u \in Users : Started /\ fight_handler(u)
    \/ \E u \in Users : Started /\ rest_handler(u)

StartupSpec == StartupInit /\ [][StartupNext]_vars

\* ------------------------------------------------------- the drop resolver
\* Calls of roll_monster_drops on monsters with no drop table, an empty one,
\* and tables of one and two entries; chances and luck are in percent.  The
\* last call's arguments and result are kept in local[1].
DropChances == {0, 5, 6, 10, 11, 50, 51, 100}
LuckModifiers == {0, 50, 100, 200, 2000}

DropTables ==
    { << >> }
    \cup { << <<"tail", c>> >> : c \in DropChances }
    \cup { << <<"tail", c>>, <<"fang", d>> >> : c \in DropChances, d \in DropChances }

Monsters ==
    { [name |-> "Bat"] } \cup { [name |-> "Bat", drops |-> tb] : tb \in DropTables }

DropInit ==
    /\ enemies = << >>
    /\ players = EmptyData
    /\ disk = EmptyData
    /\ dirty = FALSE
    /\ saves = 0
    /\ writable = TRUE
    /\ fsmState = [u \in Users |-> "none"]
    /\ fsmData = [u \in Users |-> EmptyData]
    /\ pc = [t \in Tasks |-> "idle"]
    /\ local = [t \in Tasks |-> EmptyData]
    /\ reply = [u \in Users |-> "none"]
    /\ requests = 0

Call_roll_monster_drops(monster_data, luck_modifier) ==
    /\ Deliver
    /\ \E drops \in get_monster_drops(monster_data, luck_modifier) :
          local' = [local EXCEPT ![1] = [monster_data |-> monster_data,
                                         luck_modifier |-> luck_modifier,
                                         drops |-> drops]]
    /\ Returned("drops")
    /\ UNCHANGED << enemies, players, dirty, disk, saves, writable,
                    fsmState, fsmData, pc >>

DropNext ==
    \E monster_data \in Monsters, luck_modifier \in LuckModifiers :
        Call_roll_monster_drops(monster_data, luck_modifier)

DropSpec == DropInit /\ [][DropNext]_vars

\* ----------------------------------------------------------- the inventory
\* add_item_to_inventory called any number of times on one player whose
\* inventory starts empty or with one stack.
ItemNames == {"tail", "fang"}
ItemTypes == {"misc", "weapon"}
ItemQuantities == {1, 2}

Items ==
    { [name |-> n, type |-> ty, quantity |-> q, damage |-> 0, defense |-> 0,
       heal_amount |-> 0] : n \in ItemNames, ty \in ItemTypes,
                            q \in ItemQuantities }

StartInventories ==
    { << >>,
      << [name |-> "tail", type |-> "misc", quantity |-> 3, damage |-> 0,
          defense |-> 0, heal_amount |-> 0] >> }

InventoryInit ==
    /\ enemies = << >>
    /\ \E inv \in StartInventories :
          players = (1 :> [NewPlayer(1) EXCEPT !.inventory = inv])
    /\ disk = DumpPlayers(players)
    /\ dirty = FALSE
    /\ saves = 0
    /\ writable = TRUE
    /\ fsmState = [u \in Users |-> "none"]
    /\ fsmData = [u \in Users |-> EmptyData]
    /\ pc = [t \in Tasks |-> "idle"]
    /\ local = [t \in Tasks |-> EmptyData]
    /\ reply = [u \in Users |-> "none"]
    /\ requests = 0

Call_add_item_to_inventory(u, item) ==
    /\ Deliver
    /\ u \in DOMAIN players
    /\ Commit(add_item_to_inventory(TheStore, u, item))
    /\ Returned("none")
    /\ UNCHANGED << enemies, writable, fsmState, fsmData, pc, local >>

InventoryNext ==
    \E u \in Users, item \in Items : Call_add_item_to_inventory(u, item)

InventorySpec == InventoryInit /\ [][InventoryNext]_vars

\* ================================================================ claims
AllIdle == \A t \in Tasks : pc[t] = "idle"

\* The file content that holds exactly the players ps: one record under the
\* decimal key of each id.
Persisted(ps) ==
    [key \in {ToString(k) : k \in DOMAIN ps} |->
        ps[CHOOSE k \in DOMAIN ps : ToString(k) = key]]

\* The quantity a list of items or drops holds under a name.
RECURSIVE QtyOf(_, _)
QtyOf(items, n) ==
    IF items = << >> THEN 0
    ELSE (IF Head(items).name = n THEN Head(items).quantity ELSE 0)
         + QtyOf(Tail(items), n)

NamesOf(items) == {items[i].name : i \in DOMAIN items}

\* C1: in an attack action the victory check comes right after the player's
\* damage and before the enemy's roll: a hit that brings the enemy to <= 0
\* sends the action to Victory with the player's health not reduced, the
\* enemy's turn is entered only from the player's turn with a living enemy,
\* and an action in Victory never takes an enemy turn.
C1_VictoryBeforeEnemyTurn ==
    [][\A t \in Tasks :
        /\ (pc[t] = "player_turn" /\ pc'[t] # "player_turn") =>
              LET uid == local[t].player_id
                  dealt == players'[uid].total_damage_dealt
                           - players[uid].total_damage_dealt
                  left == local[t].enemy.health - dealt
              IN  IF left <= 0
                  THEN /\ pc'[t] = "victory_clear"
                       /\ players'[uid].health >= players[uid].health
                  ELSE /\ pc'[t] = "enemy_turn"
                       /\ local'[t].enemy.health = left
                       /\ players'[uid].health = players[uid].health
        /\ (pc'[t] = "enemy_turn" /\ pc[t] # "enemy_turn") =>
              (pc[t] = "player_turn" /\ local'[t].enemy.health > 0)
        /\ (pc[t] = "victory_clear" /\ pc'[t] # "victory_clear") =>
              (pc'[t] = "idle" /\ players' = players)
    ]_vars

\* C1 witness: an attack reached Victory (its hit killed the enemy) and waits
\* to clear the session.
C1_Witness ==
    \E t \in Tasks :
        /\ pc[t] = "victory_clear"
        /\ players[local[t].player_id].battles_won = 1
        /\ players[local[t].player_id].total_damage_dealt >= 30

\* C2 (as claimed): no two actions of the same player overlap: at most one
\* handler of a player is between its first read and its last write.
C2_NoOverlap ==
    \A u \in Users :
        Cardinality({t \in Tasks : pc[t] # "idle" /\ local[t].user = u}) <= 1

\* C3 (as claimed): a session leaves InCombat only through Victory, Defeat or
\* a successful flee.
C3_OnlyTerminalExits ==
    [][\A u \in Users :
        (fsmState[u] = "in_combat" /\ fsmState'[u] # "in_combat") =>
            \/ \E t \in Tasks :
                  /\ pc[t] \in {"victory_clear", "defeat_clear"}
                  /\ local[t].user = u
                  /\ pc'[t] = "idle"
            \/ \E t \in Tasks : flee_handler(t, u, TRUE) /\ reply'[u] = "fled"
    ]_vars

\* C4 (as claimed): a flee whose roll succeeds ends the session and takes
\* exactly max(1, money // 20); health is unchanged.
C4_FleeSuccess ==
    [][\A t \in Tasks, u \in Users :
        flee_handler(t, u, TRUE) =>
            LET uid == fsmData[u].player_id
            IN  /\ fsmState'[u] = "none"
                /\ fsmData'[u] = EmptyData
                /\ players'[uid].money =
                      players[uid].money - Max(1, players[uid].money \div 20)
                /\ players'[uid].health = players[uid].health
    ]_vars

\* C5 (as claimed): a flee whose roll fails lets the enemy attack once the
\* unboosted defense; then Defeat, or the session stays InCombat with the
\* turn counter one higher and the enemy snapshot and the money unchanged.
C5_FleeFailure ==
    [][\A t \in Tasks, u \in Users :
        flee_handler(t, u, FALSE) =>
            LET uid == fsmData[u].player_id
                enemy == fsmData[u].enemy
                hits == {Max(0, enemy.strength + a.damage - players[uid].defense) :
                            a \in Range(enemy.attacks)}
            IN  \E d \in hits :
                   IF players[uid].health - d <= 0
                   THEN pc'[t] = "defeat_clear"
                   ELSE /\ players'[uid].health = players[uid].health - d
                        /\ players'[uid].money = players[uid].money
                        /\ fsmState'[u] = "in_combat"
                        /\ fsmData'[u].turn_count = fsmData[u].turn_count + 1
                        /\ fsmData'[u].enemy = enemy
    ]_vars

\* C6 (as claimed): when no action is in progress, no player's money is
\* negative.
C6_MoneyNonNegative ==
    AllIdle => \A u \in DOMAIN players : players[u].money >= 0

\* C7: every player satisfies 0 <= health <= max_health, in every state and
\* so at the end of every completed combat or menu action.
C7_HealthInRange ==
    \A u \in DOMAIN players :
        /\ 0 <= players[u].health
        /\ players[u].health <= players[u].max_health

\* C7 witness: a Defeat has completed (session cleared, no action running)
\* and left the player at half health.
C7_Witness ==
    /\ AllIdle
    /\ 1 \in DOMAIN players
    /\ fsmState[1] = "none"
    /\ requests >= 4
    /\ players[1].health = 50
    /\ players[1].money \in {-1, 90}

\* C8: Defeat sets health to floor(max_health / 2), takes exactly
\* max(1, floor(money / 10)), writes the player file, and its continuation
\* ends the session.
C8_Defeat ==
    [][\A t \in Tasks :
        /\ (pc[t] # "defeat_clear" /\ pc'[t] = "defeat_clear") =>
              LET uid == local'[t].player_id
                  p == players[uid]
              IN  /\ players'[uid].health = p.max_health \div 2
                  /\ players'[uid].money = p.money - Max(1, p.money \div 10)
                  /\ disk' = Persisted(players')
                  /\ ~dirty'
        /\ (pc[t] = "defeat_clear" /\ pc'[t] # "defeat_clear") =>
              /\ fsmState'[local[t].user] = "none"
              /\ fsmData'[local[t].user] = EmptyData
    ]_vars

\* C8 witness: a player holding no money has just been defeated.
C8_Witness ==
    \E t \in Tasks :
        /\ pc[t] = "defeat_clear"
        /\ players[local[t].player_id].health = 50
        /\ players[local[t].player_id].money = -1

\* C9: Victory merges every rolled drop into the inventory, adds the enemy's
\* experience with at most one level-up, adds the money reward, raises
\* battles_won by 1, each once; the player file then equals the players in
\* memory, and the continuation ends the session.
C9_Victory ==
    [][\A t \in Tasks :
        /\ (pc[t] = "player_turn" /\ pc'[t] = "victory_clear") =>
              LET uid == local[t].player_id
                  e == local[t].enemy
                  p == players[uid]
                  q == players'[uid]
                  total == p.exp + e.exp
                  up == total >= 20 * p.level
              IN  /\ q.battles_won = p.battles_won + 1
                  /\ q.money = p.money + e.reward
                  /\ q.level = IF up THEN p.level + 1 ELSE p.level
                  /\ q.exp = IF up THEN total - 20 * p.level ELSE total
                  /\ q.max_health = IF up THEN p.max_health + 10 ELSE p.max_health
                  /\ q.health = IF up THEN p.max_health + 10 ELSE p.health
                  /\ q.strength = IF up THEN p.strength + 2 ELSE p.strength
                  /\ \E drops \in get_monster_drops(e, 100) :
                        \A n \in NamesOf(drops) \cup NamesOf(p.inventory)
                                 \cup NamesOf(q.inventory) :
                            QtyOf(q.inventory, n)
                               = QtyOf(p.inventory, n) + QtyOf(drops, n)
                  /\ disk' = Persisted(players')
                  /\ ~dirty'
        /\ (pc[t] = "victory_clear" /\ pc'[t] # "victory_clear") =>
              /\ fsmState'[local[t].user] = "none"
              /\ fsmData'[local[t].user] = EmptyData
    ]_vars

\* C9 witness: a Victory that levelled the player up and merged a drop.
C9_Witness ==
    \E t \in Tasks :
        /\ pc[t] = "victory_clear"
        /\ players[local[t].player_id].level = 2
        /\ players[local[t].player_id].exp = 5
        /\ players[local[t].player_id].inventory # << >>

TerminalReplies == {"victory", "defeat", "fled", "cancelled"}

\* C10 (as claimed): once a terminal outcome has been rendered and the
\* session has ended, the session holds no enemy snapshot and no turn counter
\* and no step puts one back.
C10_NoSessionAfterTerminal ==
    [][\A u \in Users :
        (reply[u] \in TerminalReplies /\ fsmState[u] = "none") =>
            /\ {"enemy", "turn_count"} \cap DOMAIN fsmData[u] = {}
            /\ {"enemy", "turn_count"} \cap DOMAIN fsmData'[u] = {}
    ]_vars

\* C11 (as claimed): an attack whose index is too large, negative or not a
\* number is rejected: the handler ends without a roll, and the session
\* state, the session data (enemy snapshot, turn counter) and the player's
\* health are unchanged.
C11_InvalidIndexRejected ==
    [][\A t \in Tasks, u \in Users, token \in AttackTokens :
        ( /\ attack_handler(t, u, token)
          /\ {"player_id", "enemy"} \subseteq DOMAIN fsmData[u]
          /\ fsmData[u].player_id \in DOMAIN players
          /\ \/ ~token.digits
             \/ token.value < 0
             \/ token.value >= Len(players[fsmData[u].player_id].attacks) )
        => /\ pc'[t] = "idle"
           /\ fsmState'[u] = fsmState[u]
           /\ fsmData'[u] = fsmData[u]
           /\ players'[fsmData[u].player_id].health
                 = players[fsmData[u].player_id].health
    ]_vars

AtLeastZero(x) == IF x > 0 THEN x ELSE 0

\* The damage values one attack can apply: the hit values if it can hit, 0 if
\* it can miss.
Outcomes(accuracy, hit_values) ==
    (IF accuracy > 0 THEN hit_values ELSE {})
    \cup (IF accuracy < 100 THEN {0} ELSE {})

\* C12: every hit applies max(0, attacker strength + attack damage -
\* defender defense): the player's hit that value, or floor(1.5 * it) on a
\* critical, subtracted from the enemy's health; the enemy's counter-attack
\* that value against the player's defense, subtracted from the player's
\* health (or Defeat); a miss changes no health.  Strength 10, attack 10,
\* enemy defense 5 and no critical give 15.
C12_Damage ==
    [][\A t \in Tasks :
        /\ (pc[t] = "player_turn" /\ pc'[t] # "player_turn") =>
              LET uid   == local[t].player_id
                  p     == players[uid]
                  a     == local[t].attack
                  e     == local[t].enemy
                  base  == AtLeastZero(p.strength + a.damage - e.defense)
                  dealt == players'[uid].total_damage_dealt - p.total_damage_dealt
              IN  /\ dealt \in Outcomes(a.accuracy, {base, (3 * base) \div 2})
                  /\ pc'[t] = "enemy_turn" =>
                        local'[t].enemy.health = e.health - dealt
                  /\ pc'[t] # "enemy_turn" => e.health - dealt <= 0
        /\ (pc[t] = "enemy_turn" /\ pc'[t] # "enemy_turn") =>
              LET uid  == local[t].player_id
                  p    == players[uid]
                  e    == local[t].enemy
                  hits == UNION { Outcomes(a.accuracy,
                                     {AtLeastZero(e.strength + a.damage - p.defense)}) :
                                  a \in Range(e.attacks) }
              IN  \E d \in hits :
                     IF p.health - d <= 0
                     THEN pc'[t] = "defeat_clear"
                     ELSE /\ pc'[t] = "idle"
                          /\ players'[uid].health = p.health - d
                          /\ fsmData'[local[t].user].enemy.health = e.health
        /\ PlayerDamage([strength |-> 10], [damage |-> 10], [defense |-> 5], FALSE) = 15
        /\ PlayerDamage([strength |-> 10], [damage |-> 15], [defense |-> 20], TRUE) = 7
    ]_vars

\* C12 witness: a critical hit of the second attack on the Ogre (base 3,
\* floor(4.5) = 4) has been applied and the enemy's turn is due.
C12_Witness ==
    \E t \in Tasks :
        /\ pc[t] = "enemy_turn"
        /\ local[t].enemy.name = "Ogre"
        /\ local[t].enemy.health = 196
        /\ players[local[t].player_id].total_damage_dealt = 4

\* C13 (as claimed): an attack that ends with both sides alive leaves the
\* session InCombat, the turn counter one higher than the action found it,
\* and the stored enemy snapshot at the health the action found minus the
\* damage it dealt.
C13_AttackContinues ==
    [][\A t \in Tasks :
        /\ (pc[t] = "idle" /\ pc'[t] = "player_turn") =>
              /\ local'[t].enemy = fsmData[local'[t].user].enemy
              /\ local'[t].turn_count = fsmData[local'[t].user].turn_count
        /\ (pc[t] = "player_turn" /\ pc'[t] = "enemy_turn") =>
              /\ local'[t].turn_count = local[t].turn_count
              /\ local'[t].enemy.health =
                    local[t].enemy.health
                    - (players'[local[t].player_id].total_damage_dealt
                       - players[local[t].player_id].total_damage_dealt)
        /\ (pc[t] = "enemy_turn" /\ pc'[t] = "idle") =>
              /\ fsmState'[local[t].user] = "in_combat"
              /\ fsmData'[local[t].user].turn_count = local[t].turn_count + 1
              /\ fsmData'[local[t].user].enemy = local[t].enemy
    ]_vars

\* C14: a defend action leaves the enemy snapshot as it was and never leads
\* to Victory; it either goes to Defeat, the enemy's hit having brought the
\* player to <= 0, or ends with the session InCombat, the player alive and
\* the turn counter one higher.
C14_Defend ==
    [][\A t \in Tasks, u \in Users :
        defend_handler(t, u) =>
            LET uid == fsmData[u].player_id
                p   == players[uid]
                e   == fsmData[u].enemy
            IN  /\ fsmData'[u].enemy = e
                /\ pc'[t] # "victory_clear"
                /\ reply'[u] # "victory"
                /\ players'[uid].battles_won = p.battles_won
                /\ \/ /\ pc'[t] = "defeat_clear"
                      /\ reply'[u] = "defeat"
                      /\ \E a \in Range(e.attacks) :
                            p.health - AtLeastZero(e.strength + a.damage
                                         - (p.defense + p.defense \div 2)) <= 0
                   \/ /\ pc'[t] = "idle"
                      /\ reply'[u] = "ok"
                      /\ fsmState'[u] = "in_combat"
                      /\ players'[uid].health > 0
                      /\ fsmData'[u].turn_count = fsmData[u].turn_count + 1
    ]_vars

\* C14 witness: the saved player (health 90) defended against the Ogre as
\* the first action of the fight and took 58: second turn, no damage dealt,
\* the enemy at full health.
C14_Witness ==
    /\ fsmState[1] = "in_combat"
    /\ reply[1] = "ok"
    /\ fsmData[1].turn_count = 2
    /\ fsmData[1].enemy.name = "Ogre"
    /\ fsmData[1].enemy.health = 200
    /\ players[1].total_damage_dealt = 0
    /\ players[1].health = 32

\* C15: in a defend action the enemy's hit is max(0, enemy strength + attack
\* damage - (defense + floor(defense / 2))), and the player's defense is the
\* same after the action as before it.
C15_DefenseBonus ==
    [][\A t \in Tasks, u \in Users :
        defend_handler(t, u) =>
            LET uid  == fsmData[u].player_id
                p    == players[uid]
                e    == fsmData[u].enemy
                hits == UNION { Outcomes(a.accuracy,
                                   {AtLeastZero(e.strength + a.damage
                                        - (p.defense + p.defense \div 2))}) :
                                a \in Range(e.attacks) }
            IN  /\ players'[uid].defense = p.defense
                /\ \E d \in hits :
                      IF p.health - d <= 0
                      THEN pc'[t] = "defeat_clear"
                      ELSE /\ pc'[t] = "idle"
                           /\ players'[uid].health = p.health - d
    ]_vars

\* C15 witness: a new player (defense 5, bonus 2) took the Ogre's hit of 65
\* as 58 while defending and still has defense 5.
C15_Witness ==
    /\ fsmState[1] = "in_combat"
    /\ fsmData[1].enemy.name = "Ogre"
    /\ fsmData[1].turn_count = 2
    /\ players[1].money = 0
    /\ players[1].health = 42
    /\ players[1].defense = 5

\* C16 (as claimed): a step that completes an action and changed a player's
\* health leaves the players file equal to the players in memory and the
\* dirty flag clear.
C16_WriteThrough ==
    [][ ( /\ \A t \in Tasks : pc'[t] = "idle"
          /\ \E id \in DOMAIN players \cap DOMAIN players' :
                players'[id].health # players[id].health )
        => (disk' = Persisted(players') /\ ~dirty')
    ]_vars

\* C17: a save returns normally and never changes a player; with the dirty
\* flag clear it leaves the file alone; with the flag set (or forced) and
\* the write failing, the file is not updated and the flag stays set; with
\* the write succeeding, the file equals the players and the flag is clear.
C17_FailedWrite ==
    [][\A forced \in BOOLEAN :
        (IF forced THEN Call_force_save ELSE Call_save_players) =>
            /\ reply' = [u \in Users |-> "save_returned"]
            /\ players' = players
            /\ IF ~(dirty \/ forced) THEN disk' = disk /\ dirty' = dirty
               ELSE IF writable THEN disk' = Persisted(players) /\ ~dirty'
               ELSE disk' = disk /\ dirty'
    ]_vars

\* C17 witness: a save has returned with the write failing: the flag is
\* still set and the file is behind the players in memory.
C17_Witness ==
    /\ reply[1] = "save_returned"
    /\ ~writable
    /\ dirty
    /\ 1 \in DOMAIN players
    /\ disk # Persisted(players)

\* C18: one add_exp call with a positive amount raises the level by 0 or 1;
\* after a level-up the experience is (old exp + amount) - 20 * (old level),
\* not negative, whatever is left over staying as experience.
C18_SingleLevelUp ==
    [][\A u \in Users, exp \in ExpAmounts :
        (Call_add_exp(u, exp) /\ exp > 0) =>
            LET p == players[u]
                q == players'[u]
            IN  /\ q.level \in {p.level, p.level + 1}
                /\ q.level = p.level + 1 =>
                      /\ q.exp = (p.exp + exp) - 20 * p.level
                      /\ q.exp >= 0
                /\ q.level = p.level => q.exp = p.exp + exp
    ]_vars

\* C18 witness: add_exp(100) at level 1 gave level 2 and left 80 experience,
\* twice what level 2 requires.
C18_Witness ==
    /\ reply[1] = "add_exp_true"
    /\ 1 \in DOMAIN players
    /\ players[1].level = 2
    /\ players[1].exp = 80

\* The record a level-up makes of player p holding total experience.
Levelled(p, total) ==
    [p EXCEPT !.level = p.level + 1,
              !.exp = total - 20 * p.level,
              !.max_health = p.max_health + 10,
              !.health = p.max_health + 10,
              !.strength = p.strength + 2]

\* C19: add_exp with a positive amount, and level_up, level the player up
\* exactly when the experience (after the gain) is >= level * 20; a level-up
\* changes level +1, exp - 20 * old level, max_health +10, health = new
\* max_health, strength +2 and no other field; without one only the
\* experience changes.  Level 1, exp 0, add_exp(25) gives level 2, exp 5.
C19_LevelUp ==
    [][\A u \in Users :
        /\ \A exp \in ExpAmounts :
              (Call_add_exp(u, exp) /\ exp > 0) =>
                  LET p == players[u]
                      total == p.exp + exp
                  IN  /\ players'[u] = IF total >= p.level * 20
                                       THEN Levelled(p, total)
                                       ELSE [p EXCEPT !.exp = total]
                      /\ reply'[u] = IF total >= p.level * 20
                                     THEN "add_exp_true" ELSE "add_exp_false"
        /\ Call_level_up(u) =>
              LET p == players[u]
              IN  /\ players'[u] = IF p.exp >= p.level * 20
                                   THEN Levelled(p, p.exp) ELSE p
                  /\ reply'[u] = IF p.exp >= p.level * 20
                                 THEN "level_up_true" ELSE "level_up_false"
        /\ LET q == LevelUpPlayer([NewPlayer(u) EXCEPT !.exp = 25])
           IN  q.level = 2 /\ q.exp = 5
    ]_vars

\* C19 witness: the saved player (health 90 of 100, money 100) got 25
\* experience at level 1.
C19_Witness ==
    /\ reply[1] = "add_exp_true"
    /\ 1 \in DOMAIN players
    /\ players[1].level = 2
    /\ players[1].exp = 5
    /\ players[1].max_health = 110
    /\ players[1].health = 110
    /\ players[1].strength = 12
    /\ players[1].money = 100

\* C20: spend_money is one step: with money >= amount it subtracts exactly
\* amount and returns True, otherwise it returns False and changes no
\* player; money that was >= 0 is never below 0 afterwards.
C20_SpendMoney ==
    [][\A u \in Users, amount \in SpendAmounts :
        Call_spend_money(u, amount) =>
            LET p == players[u]
            IN  /\ IF p.money >= amount
                   THEN /\ players'[u] = [p EXCEPT !.money = p.money - amount]
                        /\ reply'[u] = "spend_money_true"
                   ELSE /\ players' = players
                        /\ reply'[u] = "spend_money_false"
                /\ p.money >= 0 => players'[u].money >= 0
    ]_vars

\* C20 witness: a spend of 101 was refused to a player holding 100.
C20_Witness ==
    /\ reply[1] = "spend_money_false"
    /\ 1 \in DOMAIN players
    /\ players[1].money = 100

\* The quantity a list of items holds under a (name, type) key, over all
\* its entries.
RECURSIVE QtyOfKey(_, _, _)
QtyOfKey(items, n, ty) ==
    IF items = << >> THEN 0
    ELSE (IF Head(items).name = n /\ Head(items).type = ty
          THEN Head(items).quantity ELSE 0)
         + QtyOfKey(Tail(items), n, ty)

UniqueKeys(items) ==
    \A i, j \in DOMAIN items :
        (items[i].name = items[j].name /\ items[i].type = items[j].type)
            => i = j

\* The inventory after adding the items of a list, in order.
RECURSIVE AddAll(_, _)
AddAll(inv, items) ==
    IF items = << >> THEN inv
    ELSE AddAll(MergeItem(inv, Head(items)), Tail(items))

SameQuantities(inv1, inv2) ==
    \A n \in ItemNames, ty \in ItemTypes :
        QtyOfKey(inv1, n, ty) = QtyOfKey(inv2, n, ty)

\* Every ordering of every three items gives the same stack quantities,
\* from every starting inventory.
MergeOrderIndependent ==
    \A inv \in StartInventories, a, b, c \in Items :
        /\ SameQuantities(AddAll(inv, <<a, b, c>>), AddAll(inv, <<a, c, b>>))
        /\ SameQuantities(AddAll(inv, <<a, b, c>>), AddAll(inv, <<b, a, c>>))
        /\ SameQuantities(AddAll(inv, <<a, b, c>>), AddAll(inv, <<c, b, a>>))
        /\ UniqueKeys(AddAll(inv, <<a, b, c>>))

\* C21: an inventory that starts with unique (name, type) keys keeps at most
\* one entry per key under add_item_to_inventory; each call raises the
\* quantity under the item's key by the item's quantity and no other, so a
\* stack holds the sum of what was added; and every ordering of the same
\* three items gives the same stack quantities.
C21_InventoryMerge ==
    [][ /\ \A u \in DOMAIN players : UniqueKeys(players[u].inventory)
        /\ \A u \in Users, item \in Items :
              Call_add_item_to_inventory(u, item) =>
                 /\ UniqueKeys(players'[u].inventory)
                 /\ \A n \in ItemNames, ty \in ItemTypes :
                       QtyOfKey(players'[u].inventory, n, ty) =
                          QtyOfKey(players[u].inventory, n, ty)
                          + (IF n = item.name /\ ty = item.type
                             THEN item.quantity ELSE 0)
        /\ MergeOrderIndependent
    ]_vars

\* C21 witness: four additions, three of them for the key (tail, misc), have
\* given two stacks, the first holding 5.
C21_Witness ==
    /\ requests = 4
    /\ Len(players[1].inventory) = 2
    /\ players[1].inventory[1].name = "tail"
    /\ players[1].inventory[1].type = "misc"
    /\ players[1].inventory[1].quantity = 5
    /\ players[1].inventory[2].name = "tail"
    /\ players[1].inventory[2].type = "weapon"

\* C22 (as claimed): a stored record without 'level' loads with level 1 and
\* one without 'attacks' loads with the two starting attacks, so that every
\* player in memory has level >= 1 and at least one attack.
C22_LegacyDefaults ==
    /\ \A file \in LegacyPlayers : \A key \in DOMAIN file :
          /\ Player_from_dict(file[key]).level = 1
          /\ Player_from_dict(file[key]).attacks = StartingAttacks
    /\ \A u \in DOMAIN players :
          players[u].level >= 1 /\ players[u].attacks # << >>

\* C23: writing a player out and reading it back gives an equal player,
\* inventory items and attacks included; so does saving the whole store and
\* loading the file.
C23_RoundTrip ==
    /\ \A u \in DOMAIN players :
          Player_from_dict(Player_to_dict(players[u])) = players[u]
    /\ _load_players(force_save(TheStore).disk, TRUE) = players

\* A saved player who carries a dropped item.
C23_Witness ==
    /\ 1 \in DOMAIN players
    /\ players[1].inventory # << >>
    /\ players[1].attacks # << >>
    /\ ~dirty
    /\ _load_players(disk, TRUE) = players

\* The catalog entries within the level window of a player of this level.
Eligible(level) == {e \in Range(enemies) : e.level <= level + 2}

\* C24: initiating a fight creates a selecting_enemy session exactly when
\* the player has health above 0 and some enemy is eligible; otherwise the
\* refusal is reported and the session state and data stay as they were.
C24_Initiate ==
    [][\A u \in Users : initiate_fight(u) =>
          IF players'[u].health > 0 /\ Eligible(players'[u].level) # {}
          THEN /\ fsmState'[u] = "selecting_enemy"
               /\ fsmData'[u].player_id = u
               /\ fsmData'[u].available_enemies # << >>
               /\ reply'[u] = "ok"
          ELSE /\ fsmState' = fsmState
               /\ fsmData' = fsmData
               /\ reply'[u] = IF players'[u].health > 0
                              THEN "no_enemies" ELSE "dead"]_vars

\* A player without health was refused while enemies were on offer.
C24_Witness ==
    /\ reply[1] = "dead"
    /\ players[1].health = 0
    /\ enemies # << >>
    /\ fsmState[1] = "none"
    /\ fsmData[1] = EmptyData

\* enemy is the catalog entry c, whatever health it has left.
SameEnemy(enemy, c) == [enemy EXCEPT !.health = c.health] = c

\* C25: the enemy of a combat session is one of the enemies stored when the
\* session was initiated, and those were exactly the catalog enemies with
\* level <= player level + 2.
C25_EnemyEligible ==
    [][/\ \A u \in Users : fsmState[u] = "in_combat" /\ "enemy" \in DOMAIN fsmData[u] =>
             /\ "available_enemies" \in DOMAIN fsmData[u]
             /\ \E c \in Range(fsmData[u].available_enemies) :
                   SameEnemy(fsmData[u].enemy, c)
       /\ \A u \in Users :
             initiate_fight(u) /\ fsmState'[u] = "selecting_enemy" /\ reply'[u] = "ok" =>
                /\ Range(fsmData'[u].available_enemies) =
                      {Enemy_to_dict(e) : e \in Eligible(players'[u].level)}
                /\ \A c \in Range(fsmData'[u].available_enemies) :
                      c.level <= players'[u].level + 2]_vars

\* A level 1 player fights the level 3 Ogre, already hurt; no Dragon was on
\* offer.
C25_Witness ==
    /\ fsmState[1] = "in_combat"
    /\ "enemy" \in DOMAIN fsmData[1]
    /\ fsmData[1].enemy.name = "Ogre"
    /\ fsmData[1].enemy.health < fsmData[1].enemy.max_health
    /\ players[1].level = 1
    /\ \A c \in Range(fsmData[1].available_enemies) : c.name # "Dragon"

\* The tokens that name an enemy the session does not offer.
NotOffered(u, token) ==
    /\ token.kind = "select"
    /\ \A c \in Range(fsmData[u].available_enemies) : c.name # token.name

\* The session of u has what enemy_selection_handler reads.
SelectionReady(u) ==
    /\ fsmState[u] = "selecting_enemy"
    /\ {"player_id", "available_enemies"} \subseteq DOMAIN fsmData[u]

\* C26 (as claimed): while an enemy is being selected, cancelling ends the
\* session without changing any field of any player, and a name that is not
\* on offer is reported and leaves the session as it was.
C26_Selection ==
    [][\A t \in Tasks, u \in Users, token \in SelectionTokens :
          SelectionReady(u) /\ enemy_selection_handler(t, u, token) =>
             /\ token.kind = "cancel" =>
                   players' = players /\ pc'[t] = "cancel_clear"
             /\ NotOffered(u, token) =>
                   /\ fsmState' = fsmState /\ fsmData' = fsmData
                   /\ reply'[u] = "rejected"]_vars

\* C26 (amended): cancelling ends the session and changes no field of any
\* player other than the play_time its lookup advances; a name that is not
\* on offer is reported and leaves the session as it was.
C26_SelectionAmended ==
    [][/\ \A t \in Tasks, u \in Users, token \in SelectionTokens :
             SelectionReady(u) /\ enemy_selection_handler(t, u, token) =>
                /\ token.kind = "cancel" =>
                      /\ DOMAIN players' = DOMAIN players
                      /\ \A v \in DOMAIN players :
                            [players'[v] EXCEPT !.play_time = players[v].play_time]
                               = players[v]
                      /\ reply'[u] = "cancelled"
                      /\ pc'[t] = "cancel_clear"
                /\ NotOffered(u, token) =>
                      /\ fsmState' = fsmState /\ fsmData' = fsmData
                      /\ reply'[u] = "rejected"
                      /\ pc' = pc
       /\ \A t \in Tasks : cancel_clear(t) =>
             /\ fsmState'[local[t].user] = "none"
             /\ fsmData'[local[t].user] = EmptyData
             /\ players' = players]_vars

\* A cancelled selection: the session is gone, the lookup's elapsed second
\* is on the player.
C26_Witness ==
    /\ reply[1] = "cancelled"
    /\ fsmState[1] = "none"
    /\ fsmData[1] = EmptyData
    /\ AllIdle
    /\ 1 \in DOMAIN players /\ players[1].play_time = 1

\* C27: no fight changes the catalog: damage goes to the session's own copy
\* of the enemy, and every offer and every new fight starts from the
\* catalog's full-health entry.
C27_CatalogIntact ==
    [][/\ enemies' = enemies
       /\ \A i \in DOMAIN enemies : enemies[i].health = enemies[i].max_health
       /\ \A u \in Users :
             initiate_fight(u) /\ fsmState'[u] = "selecting_enemy" /\ reply'[u] = "ok" =>
                Range(fsmData'[u].available_enemies)
                   \subseteq {Enemy_to_dict(e) : e \in Range(enemies)}
       /\ \A t \in Tasks, u \in Users, token \in SelectionTokens :
             /\ SelectionReady(u)
             /\ enemy_selection_handler(t, u, token)
             /\ fsmState'[u] = "in_combat"
             => fsmData'[u].enemy \in {Enemy_to_dict(e) : e \in Range(enemies)}]_vars

\* One fight has hurt its enemy while the next offer is at full health.
C27_Witness ==
    /\ enemies = Catalog
    /\ \E t \in Tasks :
          /\ pc[t] = "enemy_turn"
          /\ local[t].enemy.health < local[t].enemy.max_health
          /\ fsmState[local[t].user] = "selecting_enemy"
          /\ \E c \in Range(fsmData[local[t].user].available_enemies) :
                c.name = local[t].enemy.name /\ c.health = c.max_health

\* C28 (as claimed): an error caught by a combat handler (selection, attack,
\* defend, flee) is reported and the session is cleared.
C28_ErrorClears ==
    [][\A u \in Users :
          /\ \E t \in Tasks :
                \/ \E token \in SelectionTokens : enemy_selection_handler(t, u, token)
                \/ \E token \in AttackTokens : attack_handler(t, u, token)
                \/ defend_handler(t, u)
                \/ \E escaped \in BOOLEAN : flee_handler(t, u, escaped)
          /\ reply'[u] = "error"
          => fsmState'[u] = "none" /\ fsmData'[u] = EmptyData]_vars

\* C29 (as claimed): a request that changes a player writes the players
\* file exactly once: Victory once for all its rewards, a rest that heals
\* once.
C29_OneSavePerRequest ==
    [][/\ \A t \in Tasks :
             player_turn(t) /\ pc'[t] = "victory_clear" => saves' = 1
       /\ \A u \in Users :
             rest_handler(u) /\ reply'[u] = "ok" => saves' = 1]_vars

\* C30: a lookup of an unknown id creates the player with the defaults
\* (health 100 of 100, level 1, no exp, no money, strength 10, defense 5,
\* empty inventory, the two starting attacks) and, the file being
\* writable, persists it before returning; a lookup of a known id returns
\* the stored player with none of these fields changed.
C30_GetOrCreate ==
    [][\A u \in Users : Call_get_player(u) =>
          IF u \notin DOMAIN players
          THEN /\ DOMAIN players' = DOMAIN players \cup {u}
               /\ \A v \in DOMAIN players : players'[v] = players[v]
               /\ players'[u].user_id = u
               /\ players'[u].health = 100 /\ players'[u].max_health = 100
               /\ players'[u].level = 1 /\ players'[u].exp = 0
               /\ players'[u].money = 0
               /\ players'[u].strength = 10 /\ players'[u].defense = 5
               /\ players'[u].inventory = << >>
               /\ players'[u].attacks =
                     << [name |-> "sword", damage |-> 10, accuracy |-> 90],
                        [name |-> "power", damage |-> 15, accuracy |-> 70] >>
               /\ writable =>
                     /\ disk' = Persisted(players')
                     /\ ~dirty'
                     /\ _load_players(disk', TRUE) = players'
          ELSE /\ DOMAIN players' = DOMAIN players
               /\ \A v \in DOMAIN players :
                     [players'[v] EXCEPT !.play_time = players[v].play_time]
                        = players[v]]_vars

\* The first lookup created a player and the file holds it.
C30_Witness ==
    /\ requests = 1
    /\ reply[1] = "player"
    /\ 1 \in DOMAIN players
    /\ players[1].health = 100 /\ players[1].money = 0
    /\ ~dirty
    /\ KeyOf(1) \in DOMAIN disk
    /\ disk = Persisted(players)

\* C31 (as claimed): the stats action is a pure read: the players' fields,
\* the session (state, enemy, turn counter) and the store's dirty flag are
\* after it exactly what they were before it.
C31_StatsPureRead ==
    [][\A u \in Users :
          stats_handler(u) /\ {"player_id", "enemy"} \subseteq DOMAIN fsmData[u] =>
             /\ players' = players
             /\ dirty' = dirty
             /\ fsmState' = fsmState
             /\ fsmData' = fsmData]_vars

\* The drop table of the last roll_monster_drops call.
RolledTable ==
    IF "drops" \in DOMAIN local[1].monster_data
    THEN local[1].monster_data.drops ELSE << >>

DropRolled == "drops" \in DOMAIN local[1]

\* C32: with luck 0 nothing drops, whatever the table and the draws; an
\* entry whose effective chance min(1, chance * luck) is 1 drops on every
\* draw; no table or an empty table gives no drops.
C32_DropLuck ==
    DropRolled =>
       /\ local[1].luck_modifier = 0 => local[1].drops = << >>
       /\ RolledTable = << >> => local[1].drops = << >>
       /\ \A i \in DOMAIN RolledTable :
             RolledTable[i][2] * local[1].luck_modifier >= 10000 =>
                \E j \in DOMAIN local[1].drops :
                   local[1].drops[j].name = RolledTable[i][1]

\* Luck 2.0 saturates a 50% entry, which dropped, and not a 10% entry, which
\* did not.
C32_Witness ==
    /\ DropRolled
    /\ local[1].luck_modifier = 200
    /\ RolledTable = << <<"tail", 50>>, <<"fang", 10>> >>
    /\ Len(local[1].drops) = 1
    /\ local[1].drops[1].name = "tail"

\* The rarity and the quantities the spec gives a base chance (percent).
TierOf(chance) ==
    CASE chance > 50 -> [rarity |-> "common", quantities |-> {1, 2, 3}]
      [] chance <= 50 /\ chance > 10 -> [rarity |-> "uncommon", quantities |-> {1, 2}]
      [] chance <= 10 /\ chance > 5 -> [rarity |-> "rare", quantities |-> {1}]
      [] OTHER -> [rarity |-> "very_rare", quantities |-> {1}]

C34_StartupSurvives == \A t \in Tasks : pc[t] # "crashed"

\* C35 (as claimed): an enemy's rewards are granted once: while one attack
\* of a player is showing its Victory, its session not yet cleared, no
\* other attack of that player that read the same session reaches Victory
\* and raises battles_won again.
C35_SingleVictory ==
    [][\A s \in Tasks, t \in Tasks :
          /\ s # t
          /\ pc[t] = "victory_clear"
          /\ pc[s] = "player_turn"
          /\ local[s].user = local[t].user
          /\ player_turn(s)
          => /\ pc'[s] # "victory_clear"
             /\ players'[local[s].player_id].battles_won
                   = players[local[s].player_id].battles_won]_vars

\* C36 (as claimed): while a player's session is in combat, the menu
\* actions (rest, paid heal, daily bonus) are not applied: they leave the
\* player's health and money as they were.
C36_MenuDuringCombat ==
    [][\A u \in Users :
          /\ fsmState[u] = "in_combat"
          /\ u \in DOMAIN players
          /\ \/ rest_handler(u)
             \/ \E heal_type \in {"full", "half"} : heal_handler(u, heal_type)
             \/ daily_bonus_handler(u)
          => /\ players'[u].health = players[u].health
             /\ players'[u].money = players[u].money]_vars

\* The session of u is in combat and holds an enemy.
Fighting(state, data, u) ==
    state[u] = "in_combat" /\ {"enemy", "player_id"} \subseteq DOMAIN data[u]

\* C37 (as claimed): whenever a session is in combat and no action is
\* under way, the stored enemy has health above 0 and so has the player;
\* and from one step to the next of a session in combat the stored enemy's
\* health never rises.
C37_CombatHealth ==
    [][/\ \A u \in Users :
             AllIdle /\ Fighting(fsmState, fsmData, u) =>
                /\ fsmData[u].enemy.health > 0
                /\ players[fsmData[u].player_id].health > 0
       /\ \A u \in Users :
             Fighting(fsmState, fsmData, u) /\ Fighting(fsmState', fsmData', u) =>
                fsmData'[u].enemy.health <= fsmData[u].enemy.health]_vars

\* The step is an action for user u: a handler of an update from u, or the
\* continuation of one.
ActsFor(u) ==
    \/ start_game(u) \/ menu_handler(u) \/ rest_handler(u)
    \/ daily_bonus_handler(u) \/ fight_handler(u) \/ stats_handler(u)
    \/ \E heal_type \in {"full", "half"} : heal_handler(u, heal_type)
    \/ \E t \in Tasks :
          \/ \E token \in SelectionTokens : enemy_selection_handler(t, u, token)
          \/ \E token \in AttackTokens : attack_handler(t, u, token)
          \/ defend_handler(t, u)
          \/ \E escaped \in BOOLEAN : flee_handler(t, u, escaped)
          \/ /\ pc[t] # "idle"
             /\ local[t].user = u
             /\ \/ cancel_clear(t) \/ player_turn(t) \/ enemy_turn(t)
                \/ victory_clear(t) \/ defeat_clear(t)

\* C38: an action for one player leaves every other player's fields in the
\* store and every other player's session (state and data: enemy, turn
\* counter) as they were, however the two players' actions interleave.
C38_PlayersIndependent ==
    [][\A u \in Pair, v \in Pair :
          u # v /\ ActsFor(u) =>
             /\ v \in DOMAIN players' <=> v \in DOMAIN players
             /\ v \in DOMAIN players => players'[v] = players[v]
             /\ fsmState'[v] = fsmState[v]
             /\ fsmData'[v] = fsmData[v]]_vars

\* Player 1 is in a fight whose enemy is hurt while player 2, who joined
\* later, is choosing an enemy from a full-health offer.
C38_Witness ==
    /\ fsmState[1] = "in_combat"
    /\ "enemy" \in DOMAIN fsmData[1]
    /\ fsmData[1].enemy.health < fsmData[1].enemy.max_health
    /\ fsmData[1].player_id = 1
    /\ fsmState[2] = "selecting_enemy"
    /\ fsmData[2].player_id = 2
    /\ {1, 2} \subseteq DOMAIN players

\* C39: every player in the store has level >= 1, exp >= 0, max_health =
\* 100 + 10 * (level - 1) and strength = 10 + 2 * (level - 1), and no step
\* lowers a player's level or battles_won.
C39_Progression ==
    [][/\ \A u \in DOMAIN players :
             /\ players[u].level >= 1
             /\ players[u].exp >= 0
             /\ players[u].max_health = 100 + 10 * (players[u].level - 1)
             /\ players[u].strength = 10 + 2 * (players[u].level - 1)
       /\ \A u \in DOMAIN players :
             /\ u \in DOMAIN players'
             /\ players'[u].level >= players[u].level
             /\ players'[u].battles_won >= players[u].battles_won]_vars

\* A player who won a fight and reached level 2.
C39_Witness ==
    /\ 1 \in DOMAIN players
    /\ players[1].level = 2
    /\ players[1].battles_won >= 1
    /\ players[1].max_health = 110
    /\ players[1].strength = 12

\* C40: heal raises the health to min(health + amount, max_health) and
\* returns the increase, damage lowers it to max(0, health - amount) and
\* returns the decrease; for an amount <= 0 both return 0 and change
\* nothing; what they return is never negative, and no other field changes.
C40_HealDamage ==
    [][\A u \in Users, amount \in HealthAmounts :
          /\ Call_heal_player(u, amount) =>
                /\ local'[1].returned >= 0
                /\ players' = [players EXCEPT ![u].health = @ + local'[1].returned]
                /\ IF amount <= 0
                   THEN local'[1].returned = 0 /\ disk' = disk /\ dirty' = dirty
                   ELSE /\ players'[u].health <= players[u].max_health
                        /\ \/ players'[u].health = players[u].health + amount
                           \/ players'[u].health = players[u].max_health
          /\ Call_damage_player(u, amount) =>
                /\ local'[1].returned >= 0
                /\ players' = [players EXCEPT ![u].health = @ - local'[1].returned]
                /\ IF amount <= 0
                   THEN local'[1].returned = 0 /\ disk' = disk /\ dirty' = dirty
                   ELSE /\ players'[u].health >= 0
                        /\ \/ players'[u].health = players[u].health - amount
                           \/ players'[u].health = 0]_vars

\* A heal of 30 on a player at 90 of 100 was cut to 10, or a blow of 95
\* to the 90 that were left.
C40_Witness ==
    /\ "returned" \in DOMAIN local[1]
    /\ \/ /\ local[1].call = "heal_player"
          /\ local[1].amount = 30 /\ local[1].returned = 10
          /\ players[1].health = 100
       \/ /\ local[1].call = "damage_player"
          /\ local[1].amount = 95 /\ local[1].returned = 90
          /\ players[1].health = 0

====
